---- MODULE Spec2Model ----
(***************************************************************************)
(* A model of github.com/domonda/go-structtable: the column mapper         *)
(* (columnmapper.go), the text render driver (renderer.go,                 *)
(* textrenderer.go) and the read driver (reader.go).                       *)
(*                                                                         *)
(* Go strings are modelled as sequences of one-character strings, so that  *)
(* cutting a tag at a comma or spacing a PascalCase name is computed.      *)
(* Indices of Go slices are zero based; a TLA+ sequence s holds the Go     *)
(* element s[i] at position i + 1.                                         *)
(***************************************************************************)
EXTENDS Integers, Sequences, FiniteSets, TLC

VARIABLES
    structType,   \* mapper: the reflect.Type handed to ColumnTitlesAndRowReflector
    mapper,       \* mapper: the *ReflectColumnTitles receiver
    mphase,       \* mapper: "new", "mapped" (titles, indices set), "reflected" (row set)
    titles,       \* mapper: the titles returned by ColumnTitlesAndRowReflector
    indices,      \* mapper: the indices slice captured by the returned row reflector
    mpanic,       \* mapper: TRUE when getNextFreeColumnIndex panicked
    row,          \* mapper: the columnValues returned by the row reflector
    txt,          \* render: the TextRenderer (beginWritten, buf)
    hooks,        \* render: the hook invocations the TextFormatRenderer backend received
    calls,        \* render: the calls made on the renderer so far, with what they returned
    readArgs,     \* read: the reader, structSlicePtr and numHeaderRows handed to Read
    destSlice,    \* read: the slice behind structSlicePtr
    readOut,      \* read: what Read returned, the reader calls it made, the slice before
    shipped,      \* readers: the TextReader or csv.Reader under call
    shipOut,      \* readers: the last call made on it and what it returned
    fmtArgs,      \* formatter: the value and the TextFormatConfig handed to toString
    fmtOut,       \* formatter: what toString returned
    cfgHeap,      \* copies: the map[int]int values that exist, by reference
    cfgs,         \* copies: the ReflectColumnTitles values made so far
    cfgCall,      \* copies: the last With... call, its receiver and the receiver before
    fieldName,    \* names: the name handed to SpacePascalCase
    spacedName,   \* names: what SpacePascalCase returned
    flatType,     \* fields: the struct type handed to StructFieldTypes
    flatOut,      \* fields: what StructFieldTypes returned
    flatNil,      \* fields: the paths of the nil pointers in the struct value
    flatVals,     \* fields: what StructFieldValues returned
    walkDecls,    \* flattening: the declared struct types, by name
    walkStack,    \* flattening: the calls of StructFieldTypes in progress
    walkOut,      \* flattening: the fields appended so far
    walkPhase,    \* flattening: running, returned, or out of stack
    exIn,         \* example: the records, renderTitleRow and the failing hook of a Render call
    exOut,        \* example: the hook invocations the backend received
    csIn,         \* compacting: the string handed to compactSpacedString
    csOut,        \* compacting: the cleaned string and modified
    detIn,        \* detection: the data and what charset.AutoDecode makes of it
    detOut,       \* detection: the Format, the lines and the error returned
    rtIn,         \* csv round trip: the renderer, its settings and the row of fields
    rtOut         \* csv round trip: the line written and the rows parsed from it

mapperVars == <<structType, mapper, mphase, titles, indices, mpanic, row>>

renderVars == <<txt, hooks, calls>>

readVars == <<readArgs, destSlice, readOut>>

shipVars == <<shipped, shipOut>>

\* The state of the components modelled as single calls.
fmtVars == <<fmtArgs, fmtOut>>

cfgVars == <<cfgHeap, cfgs, cfgCall>>

nameVars == <<fieldName, spacedName>>

fieldVars == <<flatType, flatOut, flatNil, flatVals>>

walkVars == <<walkDecls, walkStack, walkOut, walkPhase>>

exVars == <<exIn, exOut>>

csVars == <<csIn, csOut>>

detVars == <<detIn, detOut>>

rtVars == <<rtIn, rtOut>>

libVars == <<shipped, shipOut, fmtArgs, fmtOut, cfgHeap, cfgs, cfgCall, fieldName, spacedName,
             flatType, flatOut, flatNil, flatVals,
          walkDecls, walkStack, walkOut, walkPhase, exIn, exOut, csIn, csOut,
          detIn, detOut, rtIn, rtOut>>

\* What a step of one of the single-call components leaves alone.
shipFrame == <<mapperVars, renderVars, readVars, fmtVars, cfgVars, nameVars, fieldVars, walkVars,
          exVars, csVars, detVars, rtVars>>

fmtFrame == <<mapperVars, renderVars, readVars, shipVars, cfgVars, nameVars, fieldVars,
          walkVars, exVars, csVars, detVars, rtVars>>

cfgFrame == <<mapperVars, renderVars, readVars, shipVars, fmtVars, nameVars, fieldVars,
          walkVars, exVars, csVars, detVars, rtVars>>

nameFrame == <<mapperVars, renderVars, readVars, shipVars, fmtVars, cfgVars, fieldVars, walkVars,
          exVars, csVars, detVars, rtVars>>

fieldFrame == <<mapperVars, renderVars, readVars, shipVars, fmtVars, cfgVars, nameVars, walkVars,
          exVars, csVars, detVars, rtVars>>

walkFrame == <<mapperVars, renderVars, readVars, fmtVars, cfgVars, nameVars, fieldVars,
               shipVars, exVars, csVars, detVars, rtVars>>

exFrame == <<mapperVars, renderVars, readVars, fmtVars, cfgVars, nameVars, fieldVars,
             walkVars, shipVars, csVars, detVars, rtVars>>

csFrame == <<mapperVars, renderVars, readVars, fmtVars, cfgVars, nameVars, fieldVars,
             walkVars, exVars, shipVars, detVars, rtVars>>

detFrame == <<mapperVars, renderVars, readVars, fmtVars, cfgVars, nameVars, fieldVars,
              walkVars, exVars, csVars, shipVars, rtVars>>

rtFrame == <<mapperVars, renderVars, readVars, fmtVars, cfgVars, nameVars, fieldVars,
             walkVars, exVars, csVars, detVars, shipVars>>

vars == <<structType, mapper, mphase, titles, indices, mpanic, row, txt, hooks, calls,
          readArgs, destSlice, readOut, shipped, shipOut, fmtArgs, fmtOut,
          cfgHeap, cfgs, cfgCall, fieldName, spacedName, flatType, flatOut,
          flatNil, flatVals, walkDecls, walkStack, walkOut, walkPhase,
          exIn, exOut, csIn, csOut, detIn, detOut, rtIn, rtOut>>

----------------------------------------------------------------------------
(* Bounds of the model *)

\* Largest number of flattened fields of a generated struct type.
MaxFields == 3

\* Largest number of entries of a generated MapIndices map.
MaxMapEntries == 2

\* Largest number of calls made on one TextRenderer.
MaxCalls == 3

\* Largest number of elements of a rendered slice.
MaxRows == 2

\* Largest number of rows of a reader.
MaxReaderRows == 3

\* Largest number of rows of a TextReader or csv.Reader.
MaxShipRows == 2

\* Largest number of entries of a column mapping.
MaxColumns == 2

\* Largest number of ReflectColumnTitles values made from one another.
MaxConfigs == 3

\* Largest length of a generated name.
MaxNameLen == 6

\* Largest number of levels of embedded structs in a generated struct type.
MaxEmbedDepth == 2

\* Largest number of declared struct types in a step-by-step flattening.
MaxTypeNames == 2

\* Largest number of declared fields of such a struct type.
MaxDeclFields == 2

\* The number of nested calls of StructFieldTypes the stack has room for. It is
\* larger than MaxTypeNames, so that a chain of calls can only use it up by
\* visiting one declared type twice.
MaxCallDepth == 4

\* Largest number of records in a rendered slice of records with values.
MaxExampleRows == 3

\* Largest number of runes of a string handed to compactSpacedString.
MaxCompactLen == 4

\* Largest number of bytes of the data handed to the format detection.
MaxDataLen == 4

\* Largest number of bytes of a row handed to the csv renderer, one byte
\* counted between two fields.
MaxRowBytes == 4

----------------------------------------------------------------------------
(* Strings and characters *)

Upper == {"A", "B", "C", "D", "E", "F", "G", "H", "I", "J", "K", "L", "M",
          "N", "O", "P", "Q", "R", "S", "T", "U", "V", "W", "X", "Y", "Z"}

IsUpper(r) == r \in Upper

IsSpace(r) == r = " "

Min(S) == CHOOSE x \in S : \A y \in S : x <= y

Max(S) == CHOOSE x \in S : \A y \in S : x >= y

\* strings.IndexByte(s, c), zero based, -1 when c does not occur
IndexByte(s, c) ==
    IF \E i \in 1..Len(s) : s[i] = c
    THEN Min({i \in 1..Len(s) : s[i] = c}) - 1
    ELSE -1

\* strings.TrimSpace(s)
TrimSpace(s) ==
    IF \A i \in 1..Len(s) : IsSpace(s[i])
    THEN <<>>
    ELSE SubSeq(s, Min({i \in 1..Len(s) : ~IsSpace(s[i])}),
                   Max({i \in 1..Len(s) : ~IsSpace(s[i])}))

RECURSIVE spaceRunes(_, _, _, _, _)
\* The loop of SpacePascalCase over name[i..], with the builder b and the two flags.
spaceRunes(name, i, b, lastWasUpper, lastWasSpace) ==
    IF i > Len(name) THEN b
    ELSE IF name[i] = "_"
         THEN spaceRunes(name, i + 1,
                         IF ~lastWasSpace THEN Append(b, " ") ELSE b,
                         FALSE, TRUE)
         ELSE LET isUpper == IsUpper(name[i])
                  spaced  == IF isUpper /\ ~lastWasUpper /\ ~lastWasSpace
                             THEN Append(b, " ") ELSE b
              IN spaceRunes(name, i + 1, Append(spaced, name[i]),
                            isUpper, IsSpace(name[i]))

\* SpacePascalCase as it would be without the final strings.TrimSpace.
SpacePascalCaseUntrimmed(n) == spaceRunes(n, 1, <<>>, TRUE, TRUE)

SpacePascalCase(name) == TrimSpace(spaceRunes(name, 1, <<>>, TRUE, TRUE))

\* token.IsExported(name)
IsExported(name) == Len(name) > 0 /\ IsUpper(name[1])

----------------------------------------------------------------------------
(* Types, struct fields and values as reflect presents them *)

\* A type of a primitive kind.
Prim(kind) == [Kind |-> kind, Elem |-> <<>>, Fields |-> <<>>]

\* A struct type with the given declared fields.
StructOf(fields) == [Kind |-> "struct", Elem |-> <<>>, Fields |-> fields]

\* The pointer type *t; Elem holds t.
PtrTo(t) == [Kind |-> "ptr", Elem |-> <<t>>, Fields |-> <<>>]

\* reflect.StructField: Tag is the set of <<key, value>> pairs of the struct tag.
Field(name, tag, anonymous, type) ==
    [Name |-> name, Tag |-> tag, Anonymous |-> anonymous, Type |-> type]

\* structField.Tag.Lookup(key)
TagHas(tag, key) == \E p \in tag : p[1] = key

TagGet(tag, key) == (CHOOSE p \in tag : p[1] = key)[2]

RECURSIVE StructFieldTypes(_)
RECURSIVE fieldTypesFrom(_, _)
RECURSIVE fieldTypesWithHidden(_, _)
\* fieldTypesFrom as it would be without the check that a field is exported.
fieldTypesWithHidden(fields, i) ==
    IF i > Len(fields) THEN <<>>
    ELSE LET field == fields[i]
             here  == IF field.Anonymous THEN StructFieldTypes(field.Type)
                      ELSE <<field>>
         IN here \o fieldTypesWithHidden(fields, i + 1)

\* The loop of StructFieldTypes over the declared fields from position i on.
fieldTypesFrom(fields, i) ==
    IF i > Len(fields) THEN <<>>
    ELSE LET field == fields[i]
             here  == IF field.Anonymous THEN StructFieldTypes(field.Type)
                      ELSE IF IsExported(field.Name) THEN <<field>>
                      ELSE <<>>
         IN here \o fieldTypesFrom(fields, i + 1)

StructFieldTypes(t) ==
    LET st == IF t.Kind = "ptr" THEN t.Elem[1] ELSE t
    IN fieldTypesFrom(st.Fields, 1)

\* The zero reflect.Value (an element of a freshly made []reflect.Value).
ZeroValue == [path |-> <<>>]

RECURSIVE StructFieldValues(_, _)
RECURSIVE fieldValuesFrom(_, _, _)
\* The loop of StructFieldValues: the value of a field is named by the path of
\* declared field positions that leads to it in the struct value.
fieldValuesFrom(fields, path, i) ==
    IF i > Len(fields) THEN <<>>
    ELSE LET field == fields[i]
             here  == IF field.Anonymous
                      THEN StructFieldValues(field.Type, Append(path, i))
                      ELSE IF IsExported(field.Name)
                      THEN <<[path |-> Append(path, i)]>>
                      ELSE <<>>
         IN here \o fieldValuesFrom(fields, path, i + 1)

\* StructFieldValues of the struct value of type t found at path.
StructFieldValues(t, path) ==
    LET st == IF t.Kind = "ptr" THEN t.Elem[1] ELSE t
    IN fieldValuesFrom(st.Fields, path, 1)

----------------------------------------------------------------------------
(* ReflectColumnTitles *)

\* A Go map[int]int: nil or a finite function.
NilMap == [nil |-> TRUE, m |-> <<>>]

MapOf(f) == [nil |-> FALSE, m |-> f]

\* UntaggedFieldTitle: "nil" or "SpacePascalCase"
ReflectColumnTitles(tag, ignoreTitle, untagged, mapIndices) ==
    [Tag |-> tag, IgnoreTitle |-> ignoreTitle,
     UntaggedFieldTitle |-> untagged, MapIndices |-> mapIndices]

DefaultReflectColumnTitles ==
    ReflectColumnTitles("col", <<"-">>, "SpacePascalCase", NilMap)

WithTag(n, tag) == [n EXCEPT !.Tag = tag]

WithMapIndices(n, mapIndices) == [n EXCEPT !.MapIndices = mapIndices]

titleFromStructField(n, structField) ==
    LET tag == IF TagHas(structField.Tag, n.Tag)
               THEN LET raw == TagGet(structField.Tag, n.Tag)
                        i   == IndexByte(raw, ",")
                    IN IF i # -1 THEN SubSeq(raw, 1, i) ELSE raw
               ELSE <<>>
    IN IF TagHas(structField.Tag, n.Tag) /\ tag # <<>> THEN tag
       ELSE IF n.UntaggedFieldTitle = "nil" THEN structField.Name
       ELSE SpacePascalCase(structField.Name)

\* The free column indices among 0 .. numFields - 1.
freeColumnIndices(numFields, columnIndexUsed) ==
    {i \in 0..(numFields - 1) : i \notin columnIndexUsed}

\* getNextFreeColumnIndex; called only when a free index exists, else it panics.
getNextFreeColumnIndex(numFields, columnIndexUsed) ==
    Min(freeColumnIndices(numFields, columnIndexUsed))

\* chooseIndex as it would be without the check that the target is still unused.
chooseIndexIgnoringUsed(n, i, free, columnIndexUsed) ==
    IF ~n.MapIndices.nil /\ i \in DOMAIN n.MapIndices.m
    THEN n.MapIndices.m[i]
    ELSE free

\* The index chosen for field i (zero based) from the next free index and MapIndices.
chooseIndex(n, i, free, columnIndexUsed) ==
    IF ~n.MapIndices.nil /\ i \in DOMAIN n.MapIndices.m
       /\ n.MapIndices.m[i] \notin columnIndexUsed
    THEN n.MapIndices.m[i]
    ELSE free

\* indexInRange as it would be with the upper bound of the range check left out.
indexInRangeLowerOnly(index, numFields) == ~(index < 0)

\* Whether the chosen index is kept (inside 0 .. numFields - 1) or the field dropped.
indexInRange(index, numFields) == ~(index < 0 \/ index >= numFields)

RECURSIVE mapFieldsFrom(_, _, _, _)
\* The loop of ColumnTitlesAndRowReflector from field position i (one based) on;
\* st holds indices, columnIndexUsed, titles and whether the closure panicked.
mapFieldsFrom(n, structFields, i, st) ==
    IF i > Len(structFields) \/ st.panicked THEN st
    ELSE LET title == titleFromStructField(n, structFields[i])
             numFields == Len(structFields)
         IN IF title = n.IgnoreTitle
            THEN mapFieldsFrom(n, structFields, i + 1,
                               [st EXCEPT !.indices = Append(@, -1)])
            ELSE IF freeColumnIndices(numFields, st.columnIndexUsed) = {}
            THEN [st EXCEPT !.panicked = TRUE]
            ELSE LET free  == getNextFreeColumnIndex(numFields, st.columnIndexUsed)
                     index == chooseIndex(n, i - 1, free, st.columnIndexUsed)
                 IN IF ~indexInRange(index, numFields)
                    THEN mapFieldsFrom(n, structFields, i + 1,
                                       [st EXCEPT !.indices = Append(@, -1)])
                    ELSE mapFieldsFrom(n, structFields, i + 1,
                           [st EXCEPT !.indices = Append(@, index),
                                      !.columnIndexUsed = @ \cup {index},
                                      !.titles = Append(@, title)])

\* mapColumns as it would be if no title were compared with IgnoreTitle.
mapColumnsNeverIgnoring(n, structFields) ==
    mapFieldsFrom([n EXCEPT !.IgnoreTitle = <<"\\", "n", "o", "n", "e">>], structFields, 1,
                  [indices |-> <<>>, columnIndexUsed |-> {},
                   titles |-> <<>>, panicked |-> FALSE])

\* ColumnTitlesAndRowReflector on the flattened fields: titles and indices.
mapColumns(n, structFields) ==
    mapFieldsFrom(n, structFields, 1,
                  [indices |-> <<>>, columnIndexUsed |-> {},
                   titles |-> <<>>, panicked |-> FALSE])

ColumnTitlesAndRowReflector(n, t) == mapColumns(n, StructFieldTypes(t))

\* The row reflector closure: columnValues of length numTitles, the value of
\* field i stored at indices[i] when that lies inside the titles.
ReflectRow(idx, numTitles, structFields) ==
    [c \in 1..numTitles |->
        LET from == {i \in 1..Len(idx) : idx[i] = c - 1 /\ i <= Len(structFields)}
        IN IF from = {} THEN ZeroValue ELSE structFields[Max(from)]]

----------------------------------------------------------------------------
(* The struct types and configurations the mapper is run on *)

FieldNames == << <<"A">>, <<"B", "c">>, <<"C", "D">>, <<"D", "_", "e">>,
                 <<"E", "f", "G">>, <<"F">> >>

IgnoreTag == {<<"col", <<"-">>>>, <<"json", <<"-">>>>}

\* Field i of a generated struct: "plain" has no tag, "ignore" is tagged "-".
GenField(i, kind) ==
    Field(FieldNames[i], IF kind = "ignore" THEN IgnoreTag ELSE {},
          FALSE, Prim("string"))

GenStruct(kinds) == StructOf([i \in 1..Len(kinds) |-> GenField(i, kinds[i])])

GenStructs ==
    {GenStruct(kinds) : kinds \in UNION {[1..k -> {"plain", "ignore"}] : k \in 0..MaxFields}}

\* An excerpt of test.Struct: a tag cut at the comma, an ignored field, an untagged one.
TestStruct ==
    StructOf(<<
        Field(<<"B", "y", "t", "e", "s">>,
              {<<"col", <<"[", "]", "b", ",", "I", "G">>>>}, FALSE, Prim("slice")),
        Field(<<"I", "g", "n", "o", "r", "e">>, {<<"col", <<"-">>>>}, FALSE, Prim("string")),
        Field(<<"I", "n", "t", "P", "t", "r">>, {}, FALSE, PtrTo(Prim("int"))) >>)

\* A struct embedding a struct and a pointer to a struct, with a hidden field.
InnerStruct ==
    StructOf(<<
        Field(<<"X">>, {<<"col", <<",", "o">>>>}, FALSE, Prim("int")),
        Field(<<"y">>, {}, FALSE, Prim("int")) >>)

EmbeddingStruct ==
    StructOf(<<
        Field(<<"U", "s", "e", "r", "I", "D">>, {}, FALSE, Prim("int")),
        Field(<<"I", "n", "n", "e", "r">>, {}, TRUE, InnerStruct),
        Field(<<"h", "i", "d", "d", "e", "n">>, {}, FALSE, Prim("int")),
        Field(<<"T", "a", "i", "l">>, {<<"json", <<"-">>>>}, TRUE,
              PtrTo(StructOf(<<Field(<<"W">>, {<<"json", <<"-">>>>}, FALSE, Prim("bool"))>>))) >>)

MapperTypes == GenStructs \cup {TestStruct, EmbeddingStruct, PtrTo(TestStruct)}

\* The MapIndices maps tried on a type of numFields flattened fields: up to
\* MaxMapEntries entries, each target one of -1 .. numFields.
MapIndicesFor(numFields) ==
    {NilMap} \cup
    {MapOf(f) : f \in UNION {[D -> -1..numFields] :
                    D \in {S \in SUBSET (0..(numFields - 1)) : Cardinality(S) <= MaxMapEntries}}}

MapperConfigs(numFields) ==
    {WithMapIndices(base, mi) :
        base \in {DefaultReflectColumnTitles,
                  ReflectColumnTitles("json", <<"-">>, "nil", NilMap)},
        mi \in MapIndicesFor(numFields)}

\* NewTextRenderer(format, config): nothing written, no hook invoked.
NewTextRenderer == [beginWritten |-> FALSE, buf |-> <<>>]

----------------------------------------------------------------------------
(* The mapper as a state machine *)

RenderIdle ==
    /\ txt = NewTextRenderer
    /\ hooks = <<>>
    /\ calls = <<>>

\* No Read was made yet: readOut holds no result.
NoReadOut ==
    [done |-> FALSE, headerRows |-> <<>>, err |-> FALSE, panicked |-> FALSE,
     log |-> <<>>, before |-> <<>>]

ReadIdle ==
    /\ readArgs = [reader |-> [NumRows |-> 0, failStrings |-> {}, failRow |-> {}],
                   structSlicePtr |-> [Type |-> Prim("invalid"), IsNil |-> TRUE],
                   numHeaderRows |-> 0]
    /\ destSlice = <<>>
    /\ readOut = NoReadOut

\* No call was made on a shipped reader: shipOut holds no result.
NoShipOut == [done |-> FALSE]

ShipIdle ==
    /\ shipped = [kind |-> "none"]
    /\ shipOut = NoShipOut

\* toString was not called: fmtOut holds no result.
NoFmtOut == [done |-> FALSE]

FormatIdle ==
    /\ fmtArgs = [kind |-> "none"]
    /\ fmtOut = NoFmtOut

\* No With... call was made and no ReflectColumnTitles exists.
NoCfgCall == [done |-> FALSE]

CfgIdle ==
    /\ cfgHeap = <<>>
    /\ cfgs = <<>>
    /\ cfgCall = NoCfgCall

NameIdle ==
    /\ fieldName = <<>>
    /\ spacedName = [done |-> FALSE]

\* StructFieldTypes was not called.
FieldsIdle ==
    /\ flatType = [Kind |-> "invalid"]
    /\ flatOut = [done |-> FALSE]
    /\ flatNil = {}
    /\ flatVals = [done |-> FALSE]

\* StructFieldTypes is not being executed step by step.
WalkIdle ==
    /\ walkDecls = <<>>
    /\ walkStack = <<>>
    /\ walkOut = <<>>
    /\ walkPhase = "idle"

\* Render was not called on records with values.
ExampleIdle ==
    /\ exIn = [slice |-> <<>>]
    /\ exOut = [done |-> FALSE]

\* compactSpacedString was not called.
CompactIdle ==
    /\ csIn = <<>>
    /\ csOut = [done |-> FALSE]

\* The format detection was not called.
DetectIdle ==
    /\ detIn = [data |-> <<>>]
    /\ detOut = [done |-> FALSE]

\* Neither the csv renderer nor the csv parser was called.
RoundTripIdle ==
    /\ rtIn = [fields |-> <<>>]
    /\ rtOut = [written |-> FALSE, parsed |-> FALSE]

LibIdle == ShipIdle /\ FormatIdle /\ CfgIdle /\ NameIdle /\ FieldsIdle /\ WalkIdle /\ ExampleIdle /\ CompactIdle /\ DetectIdle /\ RoundTripIdle

MapperIdle ==
    /\ structType = StructOf(<<>>)
    /\ mapper = DefaultReflectColumnTitles
    /\ mphase = "idle"
    /\ titles = <<>>
    /\ indices = <<>>
    /\ mpanic = FALSE
    /\ row = <<>>

\* The column mapper, the render driver and the read driver are idle.
DriversIdle == MapperIdle /\ RenderIdle /\ ReadIdle

MapperInit ==
    /\ RenderIdle
    /\ ReadIdle
    /\ LibIdle
    /\ structType \in MapperTypes
    /\ mapper \in MapperConfigs(Len(StructFieldTypes(structType)))
    /\ mphase = "new"
    /\ titles = <<>>
    /\ indices = <<>>
    /\ mpanic = FALSE
    /\ row = <<>>

\* titles, rowReflector := mapper.ColumnTitlesAndRowReflector(structType)
MapColumns ==
    /\ mphase = "new"
    /\ LET r == ColumnTitlesAndRowReflector(mapper, structType)
       IN /\ titles' = r.titles
          /\ indices' = r.indices
          /\ mpanic' = r.panicked
          /\ mphase' = IF r.panicked THEN "panicked" ELSE "mapped"
    /\ UNCHANGED <<structType, mapper, row>>
    /\ UNCHANGED <<renderVars, readVars, libVars>>

\* row := rowReflector.ReflectRow(structValue) for a value of structType
Reflect ==
    /\ mphase = "mapped"
    /\ row' = ReflectRow(indices, Len(titles), StructFieldValues(structType, <<>>))
    /\ mphase' = "reflected"
    /\ UNCHANGED <<structType, mapper, titles, indices, mpanic>>
    /\ UNCHANGED <<renderVars, readVars, libVars>>

MapperNext == MapColumns \/ Reflect

SpecMapper == MapperInit /\ [][MapperNext]_vars

----------------------------------------------------------------------------
(* TextRenderer and the render driver *)

\* The state the render operations thread through: the TextRenderer txt, the
\* backend's record of hook invocations, and fuse: the number of hook
\* invocations until the backend returns an error (0: it never does).
RenderState(t, h, fuse) == [txt |-> t, hooks |-> h, fuse |-> fuse]

\* One invocation of a backend hook on &txt.buf: recorded by the backend, its
\* output appended to buf when it returns nil.
invokeHook(b, hook, arg) ==
    LET ok == b.fuse # 1
    IN [b   |-> [txt   |-> IF ok THEN [b.txt EXCEPT !.buf = Append(@, <<hook, arg>>)]
                           ELSE b.txt,
                 hooks |-> Append(b.hooks, [hook |-> hook, arg |-> arg, ok |-> ok]),
                 fuse  |-> IF b.fuse = 0 THEN 0 ELSE b.fuse - 1],
        err |-> ~ok]

RenderBeginTableText(b) == invokeHook(b, "begin", <<>>)

RenderHeaderRowText(b, columnTitles) == invokeHook(b, "header", columnTitles)

RenderRowText(b, fields) == invokeHook(b, "row", fields)

RenderEndTableText(b) == invokeHook(b, "end", <<>>)

\* writeBeginIfMissing as it would be if beginWritten were never set.
writeBeginNeverMarking(b) ==
    IF b.txt.beginWritten THEN [b |-> b, err |-> FALSE]
    ELSE RenderBeginTableText(b)

writeBeginIfMissing(b) ==
    IF b.txt.beginWritten THEN [b |-> b, err |-> FALSE]
    ELSE LET r == RenderBeginTableText(b)
         IN IF r.err THEN r
            ELSE [b |-> [r.b EXCEPT !.txt.beginWritten = TRUE], err |-> FALSE]

\* strfmt.FormatValue(val, txt.config): the text of a column value, here the
\* text that names the value.
FormatValue(val) == [text |-> val.path]

TextRenderer_RenderHeaderRow(b, columnTitles) ==
    LET r == writeBeginIfMissing(b)
    IN IF r.err THEN r ELSE RenderHeaderRowText(r.b, columnTitles)

TextRenderer_RenderRow(b, columnValues) ==
    LET r == writeBeginIfMissing(b)
    IN IF r.err THEN r
       ELSE RenderRowText(r.b, [i \in 1..Len(columnValues) |-> FormatValue(columnValues[i])])

\* Result: the bytes of buf, or nil and the error of the end hook.
TextRenderer_Result(b) ==
    LET r == RenderEndTableText(b)
    IN IF r.err THEN [b |-> r.b, err |-> TRUE, data |-> <<>>]
       ELSE [b |-> r.b, err |-> FALSE, data |-> r.b.txt.buf]

\* WriteResultTo: buf.WriteTo(writer) hands the bytes of buf to the writer and
\* leaves buf empty; data is what the writer received.
TextRenderer_WriteResultTo(b) ==
    [b |-> [b EXCEPT !.txt.buf = <<>>], err |-> FALSE, data |-> b.txt.buf]

RECURSIVE renderRowsIgnoringErrors(_, _, _, _, _)
\* renderRowsFrom as it would be if an error of RenderRow did not end the loop.
renderRowsIgnoringErrors(b, t, idx, numRows, i) ==
    IF i >= numRows THEN [b |-> b, err |-> FALSE]
    ELSE LET columnValues == ReflectRow(idx.indices, Len(idx.titles),
                                        StructFieldValues(t, <<i>>))
             r == TextRenderer_RenderRow(b, columnValues)
             rest == renderRowsIgnoringErrors(r.b, t, idx, numRows, i + 1)
         IN [b |-> rest.b, err |-> r.err \/ rest.err]

RECURSIVE renderRowsFrom(_, _, _, _, _)
\* The row loop of Render from element i (zero based) of a slice of numRows
\* structs of type t; the first error ends it.
renderRowsFrom(b, t, idx, numRows, i) ==
    IF i >= numRows THEN [b |-> b, err |-> FALSE]
    ELSE LET columnValues == ReflectRow(idx.indices, Len(idx.titles),
                                        StructFieldValues(t, <<i>>))
             r == TextRenderer_RenderRow(b, columnValues)
         IN IF r.err THEN r ELSE renderRowsFrom(r.b, t, idx, numRows, i + 1)

\* Render as it would be if the title row were never rendered.
RenderWithoutTitleRow(b, structSlice, renderTitleRow, columnMapper) ==
    IF ~structSlice.isSlice THEN [b |-> b, err |-> TRUE]
    ELSE LET m == ColumnTitlesAndRowReflector(columnMapper, structSlice.elem)
         IN renderRowsFrom(b, structSlice.elem, m, structSlice.len, 0)

\* Render(renderer, structSlice, renderTitleRow, columnMapper); structSlice is
\* [isSlice, elem, len]: whether it is a slice, its element type, its length.
Render(b, structSlice, renderTitleRow, columnMapper) ==
    IF ~structSlice.isSlice THEN [b |-> b, err |-> TRUE]
    ELSE LET m == ColumnTitlesAndRowReflector(columnMapper, structSlice.elem)
             h == IF renderTitleRow THEN TextRenderer_RenderHeaderRow(b, m.titles)
                  ELSE [b |-> b, err |-> FALSE]
         IN IF h.err THEN h
            ELSE renderRowsFrom(h.b, structSlice.elem, m, structSlice.len, 0)

\* RenderBytes: Render, then Result unless Render failed.
RenderBytes(b, structSlice, renderTitleRow, columnMapper) ==
    LET r == Render(b, structSlice, renderTitleRow, columnMapper)
    IN IF r.err THEN [b |-> r.b, err |-> TRUE, data |-> <<>>]
       ELSE TextRenderer_Result(r.b)

----------------------------------------------------------------------------
(* The renderer as a state machine *)

\* The struct type of the rendered slices and the titles handed to direct calls.
RowType == TestStruct

RowTitles == ColumnTitlesAndRowReflector(DefaultReflectColumnTitles, RowType).titles

\* The slices handed to Render: a non-slice value, and slices of RowType.
RenderInputs ==
    {[isSlice |-> FALSE, elem |-> RowType, len |-> 0]}
    \cup {[isSlice |-> TRUE, elem |-> RowType, len |-> n] : n \in 0..MaxRows}

\* The number of rows already handed to the renderer by direct RenderRow calls.
RowCallsMade == Cardinality({i \in 1..Len(calls) : calls[i].op = "RenderRow"})

RenderedAlready == \E i \in 1..Len(calls) : calls[i].op \in {"Render", "RenderBytes"}

Call(op, arg, err, data) == [op |-> op, arg |-> arg, err |-> err, data |-> data]

RenderInit ==
    /\ MapperIdle
    /\ ReadIdle
    /\ LibIdle
    /\ txt = NewTextRenderer
    /\ hooks = <<>>
    /\ calls = <<>>

\* err := txt.RenderHeaderRow(columnTitles)
CallRenderHeaderRow ==
    /\ Len(calls) < MaxCalls
    /\ \E fuse \in 0..2 :
        LET r == TextRenderer_RenderHeaderRow(RenderState(txt, hooks, fuse), RowTitles)
        IN /\ fuse <= Len(r.b.hooks) - Len(hooks)
           /\ txt' = r.b.txt
           /\ hooks' = r.b.hooks
           /\ calls' = Append(calls, Call("RenderHeaderRow", <<>>, r.err, <<>>))
    /\ UNCHANGED <<mapperVars, readVars, libVars>>

\* err := txt.RenderRow(columnValues)
CallRenderRow ==
    /\ Len(calls) < MaxCalls
    /\ \E fuse \in 0..2 :
        LET m == ColumnTitlesAndRowReflector(DefaultReflectColumnTitles, RowType)
            columnValues == ReflectRow(m.indices, Len(m.titles),
                                       StructFieldValues(RowType, <<RowCallsMade>>))
            r == TextRenderer_RenderRow(RenderState(txt, hooks, fuse), columnValues)
        IN /\ fuse <= Len(r.b.hooks) - Len(hooks)
           /\ txt' = r.b.txt
           /\ hooks' = r.b.hooks
           /\ calls' = Append(calls, Call("RenderRow", <<>>, r.err, <<>>))
    /\ UNCHANGED <<mapperVars, readVars, libVars>>

\* data, err := txt.Result()
CallResult ==
    /\ Len(calls) < MaxCalls
    /\ \E fuse \in 0..1 :
        LET r == TextRenderer_Result(RenderState(txt, hooks, fuse))
        IN /\ txt' = r.b.txt
           /\ hooks' = r.b.hooks
           /\ calls' = Append(calls, Call("Result", <<>>, r.err, r.data))
    /\ UNCHANGED <<mapperVars, readVars, libVars>>

\* err := txt.WriteResultTo(writer)
CallWriteResultTo ==
    /\ Len(calls) < MaxCalls
    /\ LET r == TextRenderer_WriteResultTo(RenderState(txt, hooks, 0))
       IN /\ txt' = r.b.txt
          /\ hooks' = r.b.hooks
          /\ calls' = Append(calls, Call("WriteResultTo", <<>>, r.err, r.data))
    /\ UNCHANGED <<mapperVars, readVars, libVars>>

\* err := Render(txt, structSlice, renderTitleRow, DefaultReflectColumnTitles)
CallRender ==
    /\ Len(calls) < MaxCalls
    /\ ~RenderedAlready
    /\ \E structSlice \in RenderInputs, renderTitleRow \in BOOLEAN, fuse \in 0..(MaxRows + 2) :
        LET r == Render(RenderState(txt, hooks, fuse), structSlice, renderTitleRow,
                        DefaultReflectColumnTitles)
        IN /\ fuse <= Len(r.b.hooks) - Len(hooks)
           /\ txt' = r.b.txt
           /\ hooks' = r.b.hooks
           /\ calls' = Append(calls, Call("Render",
                                          <<structSlice.len, renderTitleRow, Len(hooks)>>,
                                          r.err, <<>>))
    /\ UNCHANGED <<mapperVars, readVars, libVars>>

\* data, err := RenderBytes(txt, structSlice, renderTitleRow, DefaultReflectColumnTitles)
CallRenderBytes ==
    /\ Len(calls) < MaxCalls
    /\ ~RenderedAlready
    /\ \E structSlice \in RenderInputs, renderTitleRow \in BOOLEAN, fuse \in 0..(MaxRows + 3) :
        LET r == RenderBytes(RenderState(txt, hooks, fuse), structSlice, renderTitleRow,
                             DefaultReflectColumnTitles)
        IN /\ fuse <= Len(r.b.hooks) - Len(hooks)
           /\ txt' = r.b.txt
           /\ hooks' = r.b.hooks
           /\ calls' = Append(calls, Call("RenderBytes", <<structSlice.len, renderTitleRow>>,
                                          r.err, r.data))
    /\ UNCHANGED <<mapperVars, readVars, libVars>>

RenderNext ==
    \/ CallRenderHeaderRow
    \/ CallRenderRow
    \/ CallResult
    \/ CallWriteResultTo
    \/ CallRender
    \/ CallRenderBytes

SpecRender == RenderInit /\ [][RenderNext]_vars

----------------------------------------------------------------------------
(* Vocabulary of the claims about the column mapper *)

\* The flattened fields and the field values of the mapped struct.
flatFields == StructFieldTypes(structType)

flatValues == StructFieldValues(structType, <<>>)

numFlat == Len(flatFields)

Mapped == mphase \in {"mapped", "reflected"}

\* Field i (one based) is not ignored by its title.
NonIgnored(i) == titleFromStructField(mapper, flatFields[i]) # mapper.IgnoreTitle

\* Field i has a MapIndices entry, and its target.
Requested(i) == ~mapper.MapIndices.nil /\ (i - 1) \in DOMAIN mapper.MapIndices.m

Target(i) == mapper.MapIndices.m[i - 1]

\* The column indices taken by the fields declared before field i.
UsedBefore(idx, i) == {idx[j] : j \in 1..(i - 1)} \ {-1}

\* The lowest column index not taken by the fields declared before field i.
LowestFree(idx, i) == Min((0..(Len(idx) - 1)) \ UsedBefore(idx, i))

\* The fields that were given a column.
WithColumn(idx) == {i \in 1..Len(idx) : idx[i] # -1}

RECURSIVE titlesOfKept(_, _)
\* The titles of the fields from position i on that were given a column, in
\* declaration order.
titlesOfKept(idx, i) ==
    IF i > Len(idx) THEN <<>>
    ELSE (IF idx[i] # -1 THEN <<titleFromStructField(mapper, flatFields[i])>> ELSE <<>>)
         \o titlesOfKept(idx, i + 1)

\* The flattened fields with field k declared with the ignore sentinel as its title.
IgnoreFieldAt(fields, k) ==
    [fields EXCEPT ![k].Tag =
        {p \in @ : p[1] # mapper.Tag} \cup {<<mapper.Tag, mapper.IgnoreTitle>>}]

----------------------------------------------------------------------------
(* Claims about the column mapper *)

\* C1: the column indices given to the fields that got a column are pairwise
\* distinct and are exactly the set 0 .. n - 1, n the number of titles returned.
C1_IndicesDenseAndDistinct ==
    Mapped =>
        /\ \A i, j \in WithColumn(indices) : i # j => indices[i] # indices[j]
        /\ {indices[i] : i \in WithColumn(indices)} = 0..(Len(titles) - 1)

\* C2: for every column k the title at position k is the title of the field
\* whose value the row reflector puts at position k of the reflected row.
C2_TitlesAlignedWithRow ==
    mphase = "reflected" =>
        \A k \in 1..Len(titles) :
            \E i \in 1..numFlat :
                /\ row[k] = flatValues[i]
                /\ titles[k] = titleFromStructField(mapper, flatFields[i])

\* C3 as claimed: a non-ignored field whose MapIndices target is at or beyond
\* the number of flattened fields gets the lowest column index not yet used,
\* and its value appears in the reflected row.
C3_OutOfRangeFallsBack ==
    Mapped =>
        \A i \in 1..numFlat :
            (NonIgnored(i) /\ Requested(i) /\ Target(i) >= numFlat) =>
                /\ indices[i] = LowestFree(indices, i)
                /\ mphase = "reflected" => \E k \in 1..Len(row) : row[k] = flatValues[i]

\* C3 as amended: a non-ignored field whose MapIndices target lies outside
\* 0 .. numFields - 1 is dropped without a panic: it gets index -1, the titles
\* are those of the fields that kept a column, and its value is in no cell of
\* the reflected row.
C3_OutOfRangeDropped ==
    /\ ~mpanic
    /\ Mapped =>
        \A i \in 1..numFlat :
            (NonIgnored(i) /\ Requested(i) /\ (Target(i) < 0 \/ Target(i) >= numFlat)) =>
                /\ indices[i] = -1
                /\ titles = titlesOfKept(indices, 1)
                /\ mphase = "reflected" => \A k \in 1..Len(row) : row[k] # flatValues[i]

\* C3 witness: a reflected row of a struct in which a non-ignored field asked
\* for a target at or beyond the number of fields while another field kept a column.
C3_Witness ==
    /\ mphase = "reflected"
    /\ Len(titles) > 0
    /\ \E i \in 1..numFlat : NonIgnored(i) /\ Requested(i) /\ Target(i) >= numFlat

\* C4 as claimed, read for targets inside 0 .. numFields - 1: of two
\* non-ignored fields that request the same target the first declared gets the
\* target, the later one the lowest index not yet used, and neither is dropped.
C4_FirstDeclaredWins ==
    Mapped =>
        \A i, j \in 1..numFlat :
            (i < j /\ NonIgnored(i) /\ NonIgnored(j) /\ Requested(i) /\ Requested(j)
                   /\ Target(i) = Target(j) /\ Target(i) \in 0..(numFlat - 1)) =>
                /\ indices[i] = Target(i)
                /\ indices[j] # -1
                /\ indices[j] = LowestFree(indices, j)

\* C4 as amended: when the shared target lies inside 0 .. numFields - 1, the
\* first declared field gets it unless an earlier field already holds it (then
\* it gets the lowest index not yet used), the later field always gets the
\* lowest index not yet used, neither is dropped and nothing panics.
C4_CollisionFallsBack ==
    /\ ~mpanic
    /\ Mapped =>
        \A i, j \in 1..numFlat :
            (i < j /\ NonIgnored(i) /\ NonIgnored(j) /\ Requested(i) /\ Requested(j)
                   /\ Target(i) = Target(j) /\ Target(i) \in 0..(numFlat - 1)) =>
                /\ indices[i] = IF Target(i) \in UsedBefore(indices, i)
                                THEN LowestFree(indices, i) ELSE Target(i)
                /\ indices[i] # -1
                /\ indices[j] # -1
                /\ indices[j] = LowestFree(indices, j)

\* C4 witness: two non-ignored fields requested the same free target inside
\* the range; the first holds it and the later one holds another column.
C4_Witness ==
    /\ Mapped
    /\ \E i, j \in 1..numFlat :
            /\ i < j /\ NonIgnored(i) /\ NonIgnored(j) /\ Requested(i) /\ Requested(j)
            /\ Target(i) = Target(j) /\ Target(i) \in 0..(numFlat - 1)
            /\ indices[i] = Target(i) /\ indices[j] \notin {-1, Target(i)}

\* C5 as claimed: declaring any one field that is ignored neither by its title
\* nor by a negative MapIndices target with the ignore sentinel takes it out of
\* the titles, makes the number of columns exactly one smaller, and every
\* other field that had a column keeps one.
C5_IgnoreRemovesOneColumn ==
    Mapped =>
        \A k \in 1..numFlat :
            (NonIgnored(k) /\ ~(Requested(k) /\ Target(k) < 0)) =>
                LET r == mapColumns(mapper, IgnoreFieldAt(flatFields, k))
                IN /\ r.indices[k] = -1
                   /\ Len(r.titles) = Len(titles) - 1
                   /\ \A i \in WithColumn(indices) \ {k} : r.indices[i] # -1

\* C5 as amended: the count drops by exactly one when the field had a column;
\* a field that an out of range MapIndices target had already dropped leaves
\* the count as it was. In both cases the field has no column afterwards and
\* every other field that had a column keeps one.
C5_IgnoreRemovesItsColumn ==
    Mapped =>
        \A k \in 1..numFlat :
            NonIgnored(k) =>
                LET r == mapColumns(mapper, IgnoreFieldAt(flatFields, k))
                IN /\ ~r.panicked
                   /\ r.indices[k] = -1
                   /\ Len(r.titles) = IF indices[k] # -1 THEN Len(titles) - 1
                                      ELSE Len(titles)
                   /\ \A i \in 1..numFlat : i # k => (r.indices[i] # -1 <=> indices[i] # -1)

\* C5 witness: a mapped struct with a field that holds a column, is not
\* ignored, and has a neighbour that holds a column as well.
C5_Witness ==
    /\ Mapped
    /\ \E k, i \in WithColumn(indices) : k # i /\ NonIgnored(k)

----------------------------------------------------------------------------
(* Vocabulary of the claims about the renderer *)

HookCount(hook) == Cardinality({i \in 1..Len(hooks) : hooks[i].hook = hook})

\* The positions of the begin hook invocations that returned nil.
BegunAt == {i \in 1..Len(hooks) : hooks[i].hook = "begin" /\ hooks[i].ok}

AllHooksOk == \A i \in 1..Len(hooks) : hooks[i].ok

IsRowCall(c) == c.op \in {"RenderHeaderRow", "RenderRow"}

ResultCalls == {i \in 1..Len(calls) : calls[i].op = "Result"}

\* The calls are RenderHeaderRow/RenderRow calls followed by Result calls only.
RowsThenResults ==
    /\ \A i \in 1..Len(calls) : IsRowCall(calls[i]) \/ calls[i].op = "Result"
    /\ \A i, j \in 1..Len(calls) : (calls[i].op = "Result" /\ i < j) => calls[j].op = "Result"

\* The formatted row of element i (zero based) of a slice of RowType.
FormattedRow(i) ==
    LET m == ColumnTitlesAndRowReflector(DefaultReflectColumnTitles, RowType)
        v == StructFieldValues(RowType, <<i>>)
    IN [c \in 1..Len(m.titles) |->
            FormatValue(v[CHOOSE f \in 1..Len(v) : m.indices[f] = c - 1])]

OkHook(hook, arg) == [hook |-> hook, arg |-> arg, ok |-> TRUE]

\* The hook invocations C7 expects of a Render of numRows elements and Result.
ExpectedHooks(numRows, renderTitleRow) ==
    <<OkHook("begin", <<>>)>>
    \o (IF renderTitleRow THEN <<OkHook("header", RowTitles)>> ELSE <<>>)
    \o [i \in 1..numRows |-> OkHook("row", FormattedRow(i - 1))]
    \o <<OkHook("end", <<>>)>>

\* One Render and one Result were made on the fresh renderer, both without error.
RenderedOnce ==
    \/ /\ Len(calls) = 2
       /\ calls[1].op = "Render" /\ ~calls[1].err
       /\ calls[2].op = "Result" /\ ~calls[2].err
    \/ /\ Len(calls) = 1
       /\ calls[1].op = "RenderBytes" /\ ~calls[1].err

----------------------------------------------------------------------------
(* Claims about the renderer *)

\* C6: after one or more RenderHeaderRow/RenderRow calls followed by two or more
\* Result calls (no hook failing), the end hook was invoked exactly once, the
\* begin hook once, and every Result returned the bytes of the first.
C6_ResultFinalizesOnce ==
    (RowsThenResults /\ Cardinality(ResultCalls) >= 2 /\ AllHooksOk
        /\ \E i \in 1..Len(calls) : IsRowCall(calls[i])) =>
        /\ HookCount("end") = 1
        /\ HookCount("begin") = 1
        /\ \A i \in ResultCalls : calls[i].data = calls[Min(ResultCalls)].data

\* C7: one Render followed by Result on a fresh TextRenderer invokes begin
\* once, then header once iff a title row was asked for, then row once per
\* element in slice order, then end once.
C7_HooksInOrder ==
    RenderedOnce => hooks = ExpectedHooks(calls[1].arg[1], calls[1].arg[2])

\* C8 as claimed: construction invokes no hook, and once a RenderHeaderRow or
\* RenderRow call was made the begin hook has been invoked exactly once,
\* before every header and row hook.
C8_BeginInvokedOnce ==
    /\ calls = <<>> => hooks = <<>>
    /\ (\E i \in 1..Len(calls) : IsRowCall(calls[i])) =>
        /\ HookCount("begin") = 1
        /\ \A i \in 1..Len(hooks) :
              hooks[i].hook \in {"header", "row"} =>
                  \E j \in 1..(i - 1) : hooks[j].hook = "begin"

\* C8 as amended: construction invokes no hook; the first RenderHeaderRow or
\* RenderRow call invokes the begin hook before its header or row hook; once
\* the begin hook has returned nil no later call invokes it again, while a
\* begin hook that returned an error is invoked again by the next call.
C8_BeginOnceItSucceeded ==
    /\ calls = <<>> => hooks = <<>>
    /\ (\E i \in 1..Len(calls) : IsRowCall(calls[i])) => HookCount("begin") >= 1
    /\ Cardinality(BegunAt) <= 1
    /\ txt.beginWritten <=> BegunAt # {}
    /\ \A i \in 1..Len(hooks) :
          /\ hooks[i].hook \in {"header", "row"} => \E j \in BegunAt : j < i
          /\ hooks[i].hook = "begin" => \A j \in BegunAt : j >= i
    /\ \A i \in 1..Len(calls) :
          (IsRowCall(calls[i]) /\ BegunAt = {}) => calls[i].err

\* C8 witness: three direct calls; the begin hook failed in the first, succeeded
\* in the second and was not invoked by the third.
C8_Witness ==
    /\ Len(calls) = 3
    /\ \A i \in 1..3 : IsRowCall(calls[i])
    /\ calls[1].err /\ ~calls[2].err /\ ~calls[3].err
    /\ HookCount("begin") = 2
    /\ HookCount("row") + HookCount("header") = 2

\* Render was the last call made on the renderer.
RenderCalledLast == calls # <<>> /\ calls[Len(calls)].op = "Render"

\* The hook invocations of that Render call.
RenderHooks == SubSeq(hooks, calls[Len(calls)].arg[3] + 1, Len(hooks))

\* C15: if RenderHeaderRow or RenderRow returns an error during Render, which
\* they do when a backend hook fails, Render returns the error and makes no
\* further call: the failed hook is the last one invoked, and the rows handed
\* to the backend before it are the leading elements of the slice in order.
C15_RenderStopsAtFirstError ==
    RenderCalledLast =>
        LET hs == RenderHooks
            failed == {k \in 1..Len(hs) : ~hs[k].ok}
            rowsAt == {k \in 1..Len(hs) : hs[k].hook = "row"}
        IN /\ failed # {} =>
                /\ calls[Len(calls)].err
                /\ failed = {Len(hs)}
                /\ Cardinality(rowsAt) <= calls[Len(calls)].arg[1]
           /\ (failed = {} /\ calls[Len(calls)].err) => hs = <<>>
           /\ \A k \in rowsAt :
                 hs[k].arg = FormattedRow(Cardinality({j \in rowsAt : j < k}))

\* C15 witness: Render of a slice of two elements with a title row, where the
\* row hook failed for the first element.
C15_Witness ==
    /\ RenderCalledLast
    /\ calls[Len(calls)].arg[1] = 2
    /\ calls[Len(calls)].arg[2]
    /\ calls[Len(calls)].err
    /\ Len(RenderHooks) >= 2
    /\ RenderHooks[Len(RenderHooks)].hook = "row"
    /\ ~RenderHooks[Len(RenderHooks)].ok
    /\ Cardinality({k \in 1..Len(RenderHooks) : RenderHooks[k].hook = "row"}) = 1

\* The calls made so far are RenderHeaderRow and RenderRow calls only.
OnlyRowCalls == \A i \in 1..Len(calls) : calls[i].op \in {"RenderHeaderRow", "RenderRow"}

\* C23: after RenderHeaderRow and RenderRow calls, WriteResultTo hands the
\* writer the bytes that Result would return, the output of the backend's
\* end-of-table hook included.
C23_WriteResultToComplete ==
    [][(/\ OnlyRowCalls
        /\ Len(calls') = Len(calls) + 1
        /\ calls'[Len(calls')].op = "WriteResultTo")
       => calls'[Len(calls')].data = TextRenderer_Result(RenderState(txt, hooks, 0)).data]_vars

\* C23 without the output of the end-of-table hook: the writer receives what
\* the hooks invoked so far have written.
C23_WritesBufferOnly ==
    [][(/\ OnlyRowCalls
        /\ Len(calls') = Len(calls) + 1
        /\ calls'[Len(calls')].op = "WriteResultTo")
       => /\ calls'[Len(calls')].data = txt.buf
          /\ hooks' = hooks]_vars

----------------------------------------------------------------------------
(* The read driver *)

\* The slice type []t; Elem holds t.
SliceOf(t) == [Kind |-> "slice", Elem |-> <<t>>, Fields |-> <<>>]

\* A Reader: NumRows rows, and the row indices at which ReadRowStrings and
\* ReadRow return an error.
ReaderOf(numRows, failStrings, failRow) ==
    [NumRows |-> numRows, failStrings |-> failStrings, failRow |-> failRow]

\* The strings of row index as the reader delivers them.
RowStrings(index) == <<<<"r", index>>, <<"c">>>>

\* One call of a reader method as the reader sees it.
ReaderCall(method, index, err) == [method |-> method, index |-> index, err |-> err]

\* reader.ReadRowStrings(index)
ReadRowStrings(reader, index) ==
    [row |-> RowStrings(index), err |-> index \in reader.failStrings]

\* reader.ReadRow(index, destStruct): destStruct populated from the row.
ReadRow(reader, index, destStruct) ==
    [rec |-> [destStruct EXCEPT !.fromRow = index], err |-> index \in reader.failRow]

\* The record of a freshly made slice element: a zero struct, or a pointer to
\* a newly allocated zero struct.
NewRecord(isSliceOfPtr) == [fromRow |-> -1, fresh |-> TRUE, ptr |-> isSliceOfPtr]

\* A record the destination held before Read.
OldRecord == [fromRow |-> -1, fresh |-> FALSE, ptr |-> FALSE]

\* destError as it would be without the check that the element type is a struct.
destErrorNoStructCheck(structSlicePtr, numHeaderRows) ==
    IF numHeaderRows < 0 THEN TRUE
    ELSE IF structSlicePtr.Type.Kind # "ptr" THEN TRUE
    ELSE IF structSlicePtr.IsNil THEN TRUE
    ELSE structSlicePtr.Type.Elem[1].Kind # "slice"

\* The checks Read makes before it touches the reader: TRUE when it returns an error.
destError(structSlicePtr, numHeaderRows) ==
    IF numHeaderRows < 0 THEN TRUE
    ELSE IF structSlicePtr.Type.Kind # "ptr" THEN TRUE
    ELSE IF structSlicePtr.IsNil THEN TRUE
    ELSE LET sliceType == structSlicePtr.Type.Elem[1]
         IN IF sliceType.Kind # "slice" THEN TRUE
            ELSE LET elemType == sliceType.Elem[1]
                     structT  == IF elemType.Kind = "ptr" THEN elemType.Elem[1] ELSE elemType
                 IN structT.Kind # "struct"

\* isSliceOfPtr of a destination that passed the checks.
IsSliceOfPtr(structSlicePtr) == structSlicePtr.Type.Elem[1].Elem[1].Kind = "ptr"

RECURSIVE readHeaderFrom(_, _, _, _, _)
\* The header loop of Read from row i on: each test of the loop condition that
\* reaches reader.NumRows() calls it.
readHeaderFrom(reader, numHeaderRows, i, headerRows, log) ==
    IF ~(i < numHeaderRows) THEN [headerRows |-> headerRows, err |-> FALSE, log |-> log]
    ELSE LET log1 == Append(log, ReaderCall("NumRows", -1, FALSE))
         IN IF ~(i < reader.NumRows)
            THEN [headerRows |-> headerRows, err |-> FALSE, log |-> log1]
            ELSE LET r == ReadRowStrings(reader, i)
                     log2 == Append(log1, ReaderCall("ReadRowStrings", i, r.err))
                 IN IF r.err THEN [headerRows |-> <<>>, err |-> TRUE, log |-> log2]
                    ELSE readHeaderFrom(reader, numHeaderRows, i + 1,
                                        Append(headerRows, r.row), log2)

RECURSIVE readRowsFrom(_, _, _, _, _, _)
\* The row loop of Read from element i on; sliceVal is the slice made by
\* reflect.MakeSlice, whose elements ReadRow fills one by one.
readRowsFrom(reader, numHeaderRows, isSliceOfPtr, i, sliceVal, log) ==
    IF ~(i < Len(sliceVal)) THEN [sliceVal |-> sliceVal, err |-> FALSE, log |-> log]
    ELSE LET r == ReadRow(reader, numHeaderRows + i, NewRecord(isSliceOfPtr))
             log1 == Append(log, ReaderCall("ReadRow", numHeaderRows + i, r.err))
             filled == [sliceVal EXCEPT ![i + 1] = r.rec]
         IN IF r.err THEN [sliceVal |-> filled, err |-> TRUE, log |-> log1]
            ELSE readRowsFrom(reader, numHeaderRows, isSliceOfPtr, i + 1, filled, log1)

\* assignResult as it would be if the rows were read into the destination itself.
assignResultOnError(dest, rows) == rows.sliceVal

\* assignResult as it would be if the rows were appended to what the
\* destination held.
assignResultAppending(dest, rows) == IF rows.err THEN dest ELSE dest \o rows.sliceVal

\* The slice behind structSlicePtr after the row loop: assigned only if there
\* was no error.
assignResult(dest, rows) == IF rows.err THEN dest ELSE rows.sliceVal

ReadResult(headerRows, err, panicked, log, before) ==
    [done |-> TRUE, headerRows |-> headerRows, err |-> err, panicked |-> panicked,
     log |-> log, before |-> before]

\* Read(reader, structSlicePtr, numHeaderRows) with dest the slice behind
\* structSlicePtr: the result and the slice afterwards.
Read(reader, structSlicePtr, dest, numHeaderRows) ==
    IF destError(structSlicePtr, numHeaderRows)
    THEN [out |-> ReadResult(<<>>, TRUE, FALSE, <<>>, dest), dest |-> dest]
    ELSE LET hdr == readHeaderFrom(reader, numHeaderRows, 0, <<>>, <<>>)
         IN IF hdr.err
            THEN [out |-> ReadResult(<<>>, TRUE, FALSE, hdr.log, dest), dest |-> dest]
            ELSE LET log1 == Append(hdr.log, ReaderCall("NumRows", -1, FALSE))
                     numRows == reader.NumRows - numHeaderRows
                 IN IF numRows < 0
                    THEN \* reflect.MakeSlice panics on a negative length
                         [out |-> ReadResult(<<>>, FALSE, TRUE, log1, dest), dest |-> dest]
                    ELSE LET isSliceOfPtr == IsSliceOfPtr(structSlicePtr)
                             sliceVal == [k \in 1..numRows |-> NewRecord(isSliceOfPtr)]
                             rows == readRowsFrom(reader, numHeaderRows, isSliceOfPtr,
                                                  0, sliceVal, log1)
                         IN [out |-> ReadResult(IF rows.err THEN <<>> ELSE hdr.headerRows,
                                                rows.err, FALSE, rows.log, dest),
                             dest |-> assignResult(dest, rows)]

----------------------------------------------------------------------------
(* The read driver as a state machine *)

\* The values handed to Read as structSlicePtr: an untyped nil, a slice by
\* value, a nil pointer, pointers to a struct and to slices of non-structs,
\* and pointers to slices of structs and of struct pointers.
Dest(type, isNil) == [Type |-> type, IsNil |-> isNil]

InvalidDests ==
    {Dest(Prim("invalid"), TRUE),
     Dest(SliceOf(TestStruct), FALSE),
     Dest(PtrTo(SliceOf(TestStruct)), TRUE),
     Dest(PtrTo(TestStruct), FALSE),
     Dest(PtrTo(SliceOf(Prim("int"))), FALSE),
     Dest(PtrTo(SliceOf(PtrTo(Prim("int")))), FALSE),
     Dest(PtrTo(SliceOf(PtrTo(PtrTo(TestStruct)))), FALSE)}

ValidDests ==
    {Dest(PtrTo(SliceOf(TestStruct)), FALSE),
     Dest(PtrTo(SliceOf(PtrTo(TestStruct))), FALSE)}

\* Whether a slice lies behind the pointer.
PointsToSlice(d) == d.Type.Kind = "ptr" /\ ~d.IsNil /\ d.Type.Elem[1].Kind = "slice"

Readers ==
    {ReaderOf(n, fs, fr) : n \in 0..MaxReaderRows,
                           fs \in SUBSET (0..(MaxReaderRows - 1)),
                           fr \in SUBSET (0..(MaxReaderRows - 1))}

ReadInit ==
    /\ MapperIdle
    /\ RenderIdle
    /\ LibIdle
    /\ \E reader \in Readers, d \in InvalidDests \cup ValidDests :
        /\ reader.failStrings \subseteq 0..(reader.NumRows - 1)
        /\ reader.failRow \subseteq 0..(reader.NumRows - 1)
        /\ \E h \in -1..(reader.NumRows + 1) :
              readArgs = [reader |-> reader, structSlicePtr |-> d, numHeaderRows |-> h]
        /\ destSlice \in IF PointsToSlice(d) THEN {<<>>, <<OldRecord>>} ELSE {<<>>}
    /\ readOut = NoReadOut

\* headerRows, err := Read(reader, structSlicePtr, numHeaderRows)
CallRead ==
    /\ ~readOut.done
    /\ LET r == Read(readArgs.reader, readArgs.structSlicePtr, destSlice,
                     readArgs.numHeaderRows)
       IN /\ readOut' = r.out
          /\ destSlice' = r.dest
    /\ UNCHANGED <<readArgs, mapperVars, renderVars, libVars>>

ReadNext == CallRead

SpecRead == ReadInit /\ [][ReadNext]_vars

----------------------------------------------------------------------------
(* Claims about the read driver *)

\* The destination is a non-nil pointer to a slice of structs or of struct pointers.
IsStructSlicePtr(d) ==
    /\ d.Type.Kind = "ptr"
    /\ ~d.IsNil
    /\ d.Type.Elem[1].Kind = "slice"
    /\ \/ d.Type.Elem[1].Elem[1].Kind = "struct"
       \/ /\ d.Type.Elem[1].Elem[1].Kind = "ptr"
          /\ d.Type.Elem[1].Elem[1].Elem[1].Kind = "struct"

\* A reader method returned an error during the Read.
ReaderFailed == \E i \in 1..Len(readOut.log) : readOut.log[i].err

\* C9: if ReadRowStrings or ReadRow returned an error during Read, Read
\* returned an error and the slice behind structSlicePtr is as it was before.
C9_ReadAllOrNothing ==
    (readOut.done /\ ReaderFailed) =>
        /\ readOut.err
        /\ ~readOut.panicked
        /\ destSlice = readOut.before

\* C9 witness: ReadRow failed after an earlier row was read successfully into
\* a destination that held a record before.
C9_Witness ==
    /\ readOut.done
    /\ readOut.before # <<>>
    /\ \E i, j \in 1..Len(readOut.log) :
          /\ i < j
          /\ readOut.log[i].method = "ReadRow" /\ ~readOut.log[i].err
          /\ readOut.log[j].method = "ReadRow" /\ readOut.log[j].err

\* C10: when structSlicePtr is not a non-nil pointer to a slice of structs or
\* struct pointers, Read returns an error, calls no reader method and leaves
\* the destination as it was.
C10_RejectsBadDestination ==
    (readOut.done /\ ~IsStructSlicePtr(readArgs.structSlicePtr)) =>
        /\ readOut.err
        /\ ~readOut.panicked
        /\ readOut.log = <<>>
        /\ destSlice = readOut.before

\* C10 witness: Read was handed a pointer to a slice of ints that held an
\* element, a reader with rows and a valid numHeaderRows.
C10_Witness ==
    /\ readOut.done
    /\ readArgs.structSlicePtr = Dest(PtrTo(SliceOf(Prim("int"))), FALSE)
    /\ readArgs.reader.NumRows > 0
    /\ readArgs.numHeaderRows \in 0..readArgs.reader.NumRows
    /\ destSlice # <<>>

\* Read returned without error and without panic.
ReadSucceeded == readOut.done /\ ~readOut.err /\ ~readOut.panicked

\* C11: for 0 <= h <= R a successful Read returns as headerRows the rows
\* 0..h-1 as ReadRowStrings delivers them, in order, and sets the destination
\* to exactly R-h freshly made records, record i populated by ReadRow from
\* row h+i, whatever the destination held before.
C11_ReadSuccess ==
    LET h == readArgs.numHeaderRows
        R == readArgs.reader.NumRows
    IN (ReadSucceeded /\ 0 <= h /\ h <= R) =>
          /\ readOut.headerRows = [k \in 1..h |-> RowStrings(k - 1)]
          /\ Len(destSlice) = R - h
          /\ \A i \in 0..(R - h - 1) :
                /\ destSlice[i + 1].fresh
                /\ destSlice[i + 1].fromRow = h + i
                /\ destSlice[i + 1].ptr = IsSliceOfPtr(readArgs.structSlicePtr)

\* C11 witness: a successful Read with a header row and two data rows into a
\* destination that held a record before.
C11_Witness ==
    /\ ReadSucceeded
    /\ readArgs.numHeaderRows = 1
    /\ readArgs.reader.NumRows = 3
    /\ readOut.before = <<OldRecord>>
    /\ Len(destSlice) = 2

\* C27: Read returns without a panic for every numHeaderRows >= 0; when
\* numHeaderRows is greater than the reader's number of rows R and nothing
\* else fails, it returns all R rows as header rows and sets the destination
\* to an empty slice.
C27_ExcessHeaderRowsTolerated ==
    LET h == readArgs.numHeaderRows
        R == readArgs.reader.NumRows
    IN (readOut.done /\ h >= 0) =>
          /\ ~readOut.panicked
          /\ (/\ h > R
              /\ IsStructSlicePtr(readArgs.structSlicePtr)
              /\ readArgs.reader.failStrings = {})
             => /\ ~readOut.err
                /\ readOut.headerRows = [k \in 1..R |-> RowStrings(k - 1)]
                /\ destSlice = <<>>

\* C27 without the case it is about: Read does not panic while numHeaderRows
\* is at most the reader's number of rows.
C27_NoPanicUpToNumRows ==
    (readOut.done /\ readArgs.numHeaderRows <= readArgs.reader.NumRows) => ~readOut.panicked

----------------------------------------------------------------------------
(* The shipped readers: TextReader and csv.Reader *)

\* An error value: its kind and the row or column index or the field name it carries.
Err(kind, index, name) == [kind |-> kind, index |-> index, name |-> name]

\* The nil error.
NoError == Err("nil", -1, <<>>)

\* What ReadRow returns and leaves behind: the error, the destination struct
\* and whether the call panicked.
RowResult(err, rec, panicked) == [err |-> err, rec |-> rec, panicked |-> panicked]

\* The strings that scan as an integer.
Numeric == {"7"}

\* strfmt.Scan(dest, str, config) on a field of the given type: a field of
\* kind string takes every string, one of kind int the numeric ones.
ScanFails(fieldType, str) == fieldType.Kind = "int" /\ str \notin Numeric

\* ColumnMapping{Index, StructField}, and an entry of a map[int]string.
ColumnMapping(index, structField) == [Index |-> index, StructField |-> structField]

\* NewTextReader(rows, columnMapping, columnTitleTag): columnMapping is the
\* set of the entries of the map.
NewTextReader(rows, columnMapping, columnTitleTag) ==
    [kind |-> "text", rows |-> rows, columnMapping |-> columnMapping,
     columnTitleTag |-> columnTitleTag]

\* NewReaderFromRows(rows, format, newlineReplacement, nil, columns)
NewReaderFromRows(rows, columns) ==
    [kind |-> "csv", rows |-> rows, Columns |-> columns]

\* NumRows of either reader.
NumRows(r) == Len(r.rows)

\* The name TextReader.ReadRow compares with the mapped name: the value of
\* the columnTitleTag tag unless it is empty, else the field's Go name.
textFieldName(tr, fieldType) ==
    LET tag == IF TagHas(fieldType.Tag, tr.columnTitleTag)
               THEN TagGet(fieldType.Tag, tr.columnTitleTag) ELSE <<>>
    IN IF tag # <<>> THEN tag ELSE fieldType.Name

\* The position of the first field TextReader.ReadRow finds for name, 0 when
\* destVal stays invalid.
textFindField(tr, structT, name) ==
    LET found == {i \in 1..Len(structT.Fields) : textFieldName(tr, structT.Fields[i]) = name}
    IN IF found = {} THEN 0 ELSE Min(found)

\* textColumnError as it would be without the bounds check of the column.
textColumnErrorNever(index, col, cells) == NoError

\* The bounds check of a column index in TextReader.ReadRow.
textColumnError(index, col, cells) ==
    IF col < 0 \/ col >= Len(cells) THEN Err("column", col, <<>>) ELSE NoError

\* textFieldError as it would be without the check that a field was found.
textFieldErrorNever(pos, name) == NoError

\* The check of TextReader.ReadRow that a struct field was found.
textFieldError(pos, name) ==
    IF pos = 0 THEN Err("field", -1, name) ELSE NoError

RECURSIVE textColumnsFrom(_, _, _, _, _, _, _)
\* The loop of TextReader.ReadRow over the map entries in the order the
\* range statement delivers them, from entry k on.
textColumnsFrom(tr, order, k, index, cells, structT, rec) ==
    IF k > Len(order) THEN RowResult(NoError, rec, FALSE)
    ELSE LET col  == order[k].Index
             name == order[k].StructField
             cerr == textColumnError(index, col, cells)
             pos  == textFindField(tr, structT, name)
             ferr == textFieldError(pos, name)
         IN IF cerr # NoError THEN RowResult(cerr, rec, FALSE)
            ELSE IF ferr # NoError THEN RowResult(ferr, rec, FALSE)
            ELSE IF pos = 0 \/ col < 0 \/ col >= Len(cells)
                 THEN \* row[col] out of range, or Scan of an invalid reflect.Value
                      RowResult(NoError, rec, TRUE)
            ELSE IF ScanFails(structT.Fields[pos].Type, cells[col + 1])
                 THEN RowResult(Err("scan", col, <<>>), rec, FALSE)
            ELSE textColumnsFrom(tr, order, k + 1, index, cells, structT,
                                 [rec EXCEPT ![pos] = cells[col + 1]])

\* tr.ReadRow(index, destStruct), the map ranged over in the given order.
TextReader_ReadRow(tr, order, index, structT, rec) ==
    IF index < 0 \/ index >= Len(tr.rows)
    THEN RowResult(Err("cells", index, <<>>), rec, FALSE)
    ELSE textColumnsFrom(tr, order, 1, index, tr.rows[index + 1], structT, rec)

\* destStruct.FieldByName(name): the position of the field of that Go name,
\* 0 for the invalid Value.
FieldByName(structT, name) ==
    LET found == {i \in 1..Len(structT.Fields) : structT.Fields[i].Name = name}
    IN IF found = {} THEN 0 ELSE Min(found)

RECURSIVE csvColumnsFrom(_, _, _, _, _, _)
\* The loop of csv.Reader.ReadRow over r.Columns from entry k on.
csvColumnsFrom(r, k, index, cells, structT, rec) ==
    IF k > Len(r.Columns) THEN RowResult(NoError, rec, FALSE)
    ELSE LET col == r.Columns[k]
             pos == FieldByName(structT, col.StructField)
         IN IF col.Index < 0 \/ col.Index >= Len(cells)
            THEN csvColumnsFrom(r, k + 1, index, cells, structT, rec)
            ELSE IF pos = 0
            THEN csvColumnsFrom(r, k + 1, index, cells, structT, rec)
            ELSE IF ScanFails(structT.Fields[pos].Type, cells[col.Index + 1])
            THEN RowResult(Err("scan", col.Index, <<>>), rec, FALSE)
            ELSE csvColumnsFrom(r, k + 1, index, cells, structT,
                                [rec EXCEPT ![pos] = cells[col.Index + 1]])

\* r.ReadRow(index, destStruct) of csv.Reader
csv_Reader_ReadRow(r, index, structT, rec) ==
    IF index < 0 \/ index >= Len(r.rows)
    THEN RowResult(Err("cells", index, <<>>), rec, FALSE)
    ELSE csvColumnsFrom(r, 1, index, r.rows[index + 1], structT, rec)

\* r.ReadRowStrings(index) of csv.Reader: r.rows[index] panics when index is
\* len(r.rows), which the check lets through.
csv_Reader_ReadRowStrings(r, index) ==
    IF index < 0 \/ index > Len(r.rows)
    THEN [row |-> <<>>, err |-> Err("cells", index, <<>>), panicked |-> FALSE]
    ELSE IF index >= Len(r.rows)
    THEN [row |-> <<>>, err |-> NoError, panicked |-> TRUE]
    ELSE [row |-> r.rows[index + 1], err |-> NoError, panicked |-> FALSE]

----------------------------------------------------------------------------
(* The shipped readers as a state machine *)

\* The record type rows are read into: Name string `col:"title"`; Age int.
ReadStruct ==
    StructOf(<<
        Field(<<"N", "a", "m", "e">>, {<<"col", <<"t", "i", "t", "l", "e">>>>},
              FALSE, Prim("string")),
        Field(<<"A", "g", "e">>, {}, FALSE, Prim("int")) >>)

\* The zero value of ReadStruct: one string per field.
ZeroRecord == [i \in 1..Len(ReadStruct.Fields) |-> ""]

\* The names a column mapping uses: a Go field name, a tag value, no field.
MappedNames == {<<"A", "g", "e">>, <<"t", "i", "t", "l", "e">>, <<"N", "o", "p", "e">>}

\* The rows a reader holds.
RowPool == {<<"7">>, <<"x", "7">>}

RowSets == UNION {[1..n -> RowPool] : n \in 0..MaxShipRows}

\* The entries of a column mapping: the indices -1 .. 1 lie before, inside
\* and, for the shorter row, beyond the row.
MappingEntries == {ColumnMapping(i, n) : i \in -1..1, n \in MappedNames}

\* The map[int]string values: at most MaxColumns entries, one per key.
TextMappings ==
    {S \in SUBSET MappingEntries :
        /\ Cardinality(S) <= MaxColumns
        /\ \A a, b \in S : a.Index = b.Index => a = b}

\* The []ColumnMapping values.
CsvColumns == UNION {[1..n -> MappingEntries] : n \in 0..MaxColumns}

\* The orders in which a range statement can deliver the entries of a map.
Orders(S) ==
    {o \in [1..Cardinality(S) -> S] : \A i, j \in 1..Cardinality(S) : o[i] = o[j] => i = j}

\* ReadRow of either reader on a zero record; a TextReader ranges in some order.
ShippedReadRow(r, order, index) ==
    IF r.kind = "text"
    THEN TextReader_ReadRow(r, order, index, ReadStruct, ZeroRecord)
    ELSE csv_Reader_ReadRow(r, index, ReadStruct, ZeroRecord)

\* The shipped reader as Read sees it: the rows at which ReadRow returns an error.
AsReader(r) ==
    LET order == IF r.kind = "text" THEN CHOOSE o \in Orders(r.columnMapping) : TRUE ELSE <<>>
    IN ReaderOf(NumRows(r), {},
                {i \in 0..(NumRows(r) - 1) : ShippedReadRow(r, order, i).err # NoError})

ShipOut(method, index, err, rec, panicked, strings) ==
    [done |-> TRUE, method |-> method, index |-> index, err |-> err, rec |-> rec,
     panicked |-> panicked, strings |-> strings]

ShipInit ==
    /\ DriversIdle
    /\ FormatIdle /\ CfgIdle /\ NameIdle /\ FieldsIdle /\ WalkIdle /\ ExampleIdle /\ CompactIdle /\ DetectIdle /\ RoundTripIdle
    /\ \E rows \in RowSets :
          \/ \E m \in TextMappings : shipped = NewTextReader(rows, m, "col")
          \/ \E c \in CsvColumns : shipped = NewReaderFromRows(rows, c)
    /\ shipOut = NoShipOut

\* err := textReader.ReadRow(index, destStruct)
CallTextReadRow ==
    /\ ~shipOut.done
    /\ shipped.kind = "text"
    /\ \E index \in -1..NumRows(shipped), order \in Orders(shipped.columnMapping) :
          LET r == TextReader_ReadRow(shipped, order, index, ReadStruct, ZeroRecord)
          IN shipOut' = ShipOut("ReadRow", index, r.err, r.rec, r.panicked, <<>>)
    /\ UNCHANGED <<shipped, shipFrame>>

\* err := csvReader.ReadRow(index, destStruct)
CallCsvReadRow ==
    /\ ~shipOut.done
    /\ shipped.kind = "csv"
    /\ \E index \in -1..NumRows(shipped) :
          LET r == csv_Reader_ReadRow(shipped, index, ReadStruct, ZeroRecord)
          IN shipOut' = ShipOut("ReadRow", index, r.err, r.rec, r.panicked, <<>>)
    /\ UNCHANGED <<shipped, shipFrame>>

\* strs, err := csvReader.ReadRowStrings(index)
CallCsvReadRowStrings ==
    /\ ~shipOut.done
    /\ shipped.kind = "csv"
    /\ \E index \in -1..(NumRows(shipped) + 1) :
          LET r == csv_Reader_ReadRowStrings(shipped, index)
          IN shipOut' = ShipOut("ReadRowStrings", index, r.err, <<>>, r.panicked, r.row)
    /\ UNCHANGED <<shipped, shipFrame>>

\* _, err := Read(reader, &[]ReadStruct{}, 0) with the shipped reader
CallReadShipped ==
    /\ ~shipOut.done
    /\ LET r == Read(AsReader(shipped), Dest(PtrTo(SliceOf(ReadStruct)), FALSE), <<>>, 0)
       IN shipOut' = ShipOut("Read", 0,
                             IF r.out.err THEN Err("read", -1, <<>>) ELSE NoError,
                             r.dest, r.out.panicked, <<>>)
    /\ UNCHANGED <<shipped, shipFrame>>

ShipNext ==
    \/ CallTextReadRow
    \/ CallCsvReadRow
    \/ CallCsvReadRowStrings
    \/ CallReadShipped

SpecShipped == ShipInit /\ [][ShipNext]_vars

----------------------------------------------------------------------------
(* Claims about the shipped readers *)

\* The entries the reader is configured with, as a set.
ConfiguredEntries ==
    IF shipped.kind = "text" THEN shipped.columnMapping
    ELSE {shipped.Columns[k] : k \in 1..Len(shipped.Columns)}

\* ReadRow was called on a row the reader holds.
ReadRowCalled ==
    /\ shipOut.done
    /\ shipOut.method = "ReadRow"
    /\ shipOut.index \in 0..(NumRows(shipped) - 1)

\* The entry's column index lies outside the row.
OutsideRow(e, cells) == e.Index < 0 \/ e.Index >= Len(cells)

\* The entry names no field of ReadStruct, as the reader looks fields up.
NamesNoField(e) ==
    IF shipped.kind = "text" THEN textFindField(shipped, ReadStruct, e.StructField) = 0
    ELSE FieldByName(ReadStruct, e.StructField) = 0

\* The csv.Reader without the entries of its Columns that are in drop.
WithoutColumns(r, drop) ==
    [r EXCEPT !.Columns = SelectSeq(r.Columns, LAMBDA e : e \notin drop)]

\* C12 as stated: ReadRow of either reader fails when an entry of the column
\* mapping has a column index outside the row being read, and so does Read.
C12_ColumnOutOfRangeFails ==
    /\ (ReadRowCalled /\ \E e \in ConfiguredEntries :
                            OutsideRow(e, shipped.rows[shipOut.index + 1]))
          => shipOut.err # NoError
    /\ (shipOut.done /\ shipOut.method = "Read"
          /\ \E i \in 1..NumRows(shipped), e \in ConfiguredEntries :
                OutsideRow(e, shipped.rows[i]))
          => shipOut.err # NoError

\* C12 amended: TextReader.ReadRow fails, without panic, when an entry has a
\* column index outside the row, with the index in the error when that entry
\* is the only one, and Read fails with it; csv.Reader.ReadRow skips such an
\* entry: it returns what it returns without the entry.
C12_TextFailsCsvSkipsColumn ==
    /\ (ReadRowCalled /\ shipped.kind = "text") =>
          LET cells == shipped.rows[shipOut.index + 1]
              bad == {e \in ConfiguredEntries : OutsideRow(e, cells)}
          IN bad # {} =>
                /\ shipOut.err # NoError
                /\ ~shipOut.panicked
                /\ shipOut.err.kind = "column" => \E e \in bad : shipOut.err.index = e.Index
                /\ ConfiguredEntries = bad => shipOut.err.kind = "column"
    /\ (shipOut.done /\ shipOut.method = "Read" /\ shipped.kind = "text"
          /\ \E i \in 1..NumRows(shipped), e \in ConfiguredEntries :
                OutsideRow(e, shipped.rows[i]))
          => shipOut.err # NoError
    /\ (ReadRowCalled /\ shipped.kind = "csv") =>
          LET cells == shipped.rows[shipOut.index + 1]
              drop == {e \in ConfiguredEntries : OutsideRow(e, cells)}
              r == csv_Reader_ReadRow(WithoutColumns(shipped, drop), shipOut.index,
                                      ReadStruct, ZeroRecord)
          IN /\ shipOut.err = r.err
             /\ shipOut.rec = r.rec
             /\ ~shipOut.panicked
             /\ ConfiguredEntries = drop =>
                   shipOut.err = NoError /\ shipOut.rec = ZeroRecord

\* C12 witness: TextReader.ReadRow on a row it holds, with an entry whose
\* column index lies beyond the row, returned the column error.
C12_Witness ==
    /\ ReadRowCalled
    /\ shipped.kind = "text"
    /\ \E e \in ConfiguredEntries :
          /\ e.Index >= Len(shipped.rows[shipOut.index + 1])
          /\ shipOut.err = Err("column", e.Index, <<>>)
    /\ Cardinality(ConfiguredEntries) = 2

\* C13 as stated: ReadRow of either reader fails when an entry of the column
\* mapping names a struct field the record type does not have, and so does Read.
C13_UnknownFieldFails ==
    /\ (ReadRowCalled /\ \E e \in ConfiguredEntries : NamesNoField(e))
          => shipOut.err # NoError
    /\ (shipOut.done /\ shipOut.method = "Read" /\ NumRows(shipped) > 0
          /\ \E e \in ConfiguredEntries : NamesNoField(e))
          => shipOut.err # NoError

\* C13 amended: TextReader.ReadRow fails, without panic, when an entry names
\* a field the record type does not have, with the name in the error when no
\* entry lies outside the row, and Read fails with it; csv.Reader.ReadRow
\* skips such an entry: it returns what it returns without the entry.
C13_TextFailsCsvSkipsField ==
    /\ (ReadRowCalled /\ shipped.kind = "text") =>
          LET cells == shipped.rows[shipOut.index + 1]
              bad == {e \in ConfiguredEntries : NamesNoField(e)}
          IN bad # {} =>
                /\ shipOut.err # NoError
                /\ ~shipOut.panicked
                /\ shipOut.err.kind = "field" =>
                      \E e \in bad : shipOut.err.name = e.StructField
                /\ (ConfiguredEntries = bad /\ \A e \in bad : ~OutsideRow(e, cells))
                      => shipOut.err.kind = "field"
    /\ (shipOut.done /\ shipOut.method = "Read" /\ shipped.kind = "text"
          /\ NumRows(shipped) > 0
          /\ \E e \in ConfiguredEntries : NamesNoField(e))
          => shipOut.err # NoError
    /\ (ReadRowCalled /\ shipped.kind = "csv") =>
          LET drop == {e \in ConfiguredEntries : NamesNoField(e)}
              r == csv_Reader_ReadRow(WithoutColumns(shipped, drop), shipOut.index,
                                      ReadStruct, ZeroRecord)
          IN /\ shipOut.err = r.err
             /\ shipOut.rec = r.rec
             /\ ~shipOut.panicked
             /\ ConfiguredEntries = drop =>
                   shipOut.err = NoError /\ shipOut.rec = ZeroRecord

\* C13 witness: TextReader.ReadRow on a row it holds, with an entry inside
\* the row that names no field and one that names a field, returned the
\* field error.
C13_Witness ==
    /\ ReadRowCalled
    /\ shipped.kind = "text"
    /\ \E e, f \in ConfiguredEntries :
          /\ NamesNoField(e) /\ ~NamesNoField(f)
          /\ ~OutsideRow(e, shipped.rows[shipOut.index + 1])
          /\ shipOut.err = Err("field", -1, e.StructField)

\* C14: csv.Reader.ReadRowStrings(index) returns an error and does not panic
\* for an index that is negative or at least NumRows(), and returns the
\* stored row for an index in [0, NumRows()).
C14_ReadRowStringsBounds ==
    (shipOut.done /\ shipOut.method = "ReadRowStrings") =>
        IF shipOut.index < 0 \/ shipOut.index >= NumRows(shipped)
        THEN shipOut.err # NoError /\ ~shipOut.panicked
        ELSE /\ shipOut.err = NoError
             /\ ~shipOut.panicked
             /\ shipOut.strings = shipped.rows[shipOut.index + 1]

\* C28: the field values TextReader.ReadRow leaves in the destination record
\* do not depend on the order in which the range statement visits the
\* entries of the column mapping, also when two column indices are mapped to
\* the same field name.
C28_ReadRowOrderIndependent ==
    (shipOut.done /\ shipped.kind = "text" /\ shipOut.method = "ReadRow") =>
        \A o \in Orders(shipped.columnMapping) :
            TextReader_ReadRow(shipped, o, shipOut.index, ReadStruct, ZeroRecord).rec
                = shipOut.rec

\* C28 for the calls that return no error on a mapping that names every field
\* at most once.
C28_OrderIndependentWithoutDuplicates ==
    (/\ shipOut.done /\ shipped.kind = "text" /\ shipOut.method = "ReadRow"
     /\ shipOut.err = NoError
     /\ \A a, b \in shipped.columnMapping :
           textFindField(shipped, ReadStruct, a.StructField)
              = textFindField(shipped, ReadStruct, b.StructField)
              => a = b) =>
        \A o \in Orders(shipped.columnMapping) :
            TextReader_ReadRow(shipped, o, shipOut.index, ReadStruct, ZeroRecord).rec
                = shipOut.rec

----------------------------------------------------------------------------
(* The formatter of the text renderer: TextRenderer.toString *)

\* A named type: its kind and where its String method is declared, "value"
\* for a value receiver, "pointer" for a pointer receiver, "none" without one.
NamedType(name, kind, stringer) ==
    [Name |-> name, Kind |-> kind, Stringer |-> stringer, Elem |-> <<>>]

\* The pointer type *t.
PointerTo(t) == [Name |-> <<"*", t.Name>>, Kind |-> "ptr", Stringer |-> "none", Elem |-> <<t>>]

\* The type of a struct field declared as an interface.
InterfaceType == [Name |-> "interface", Kind |-> "interface", Stringer |-> "none", Elem |-> <<>>]

\* The dynamic type of a nil interface.
NilType == [Name |-> "nil", Kind |-> "invalid", Stringer |-> "none", Elem |-> <<>>]

\* Whether a value of type t is a fmt.Stringer: the method set of T holds the
\* methods with a value receiver, that of *T those of both receivers.
IsStringer(t) ==
    IF t.Kind = "ptr"
    THEN t.Elem[1].Kind # "ptr" /\ t.Elem[1].Stringer \in {"value", "pointer"}
    ELSE t.Stringer = "value"

\* A reflect.Value: shape "value" is a T, "ptr" a *T, "iface" an interface
\* holding a T; isNil for a nil pointer or interface; addr is CanAddr(); b is
\* the truth value of a bool.
Value(t, shape, isNil, addr, b) ==
    [T |-> t, shape |-> shape, isNil |-> isNil, addr |-> addr, b |-> b]

\* val.Type()
TypeOfValue(val) ==
    IF val.shape = "ptr" THEN PointerTo(val.T)
    ELSE IF val.shape = "iface" THEN InterfaceType
    ELSE val.T

\* The dynamic type of val.Interface().
DynamicType(val) ==
    IF val.shape = "iface" THEN (IF val.isNil THEN NilType ELSE val.T)
    ELSE TypeOfValue(val)

\* DerefValueAndType(val): follows pointers while they are not nil.
DerefValueAndType(val) ==
    IF val.shape = "ptr" /\ ~val.isNil
    THEN LET v == [val EXCEPT !.shape = "value", !.addr = TRUE]
         IN [v |-> v, t |-> TypeOfValue(v)]
    ELSE [v |-> val, t |-> TypeOfValue(val)]

\* TextFormatConfig: the Nil, True and False tokens and the types with a
\* registered TextFormatter.
TextFormatConfig(nil, true, false, typeFormatters) ==
    [Nil |-> nil, True |-> true, False |-> false, TypeFormatters |-> typeFormatters]

\* What toString returns: the rule that applied and the text, or a panic.
Formatted(rule, text) == [done |-> TRUE, rule |-> rule, text |-> text, panicked |-> FALSE]

FormatPanic == [done |-> TRUE, rule |-> "panic", text |-> <<>>, panicked |-> TRUE]

\* isNilValue as it would be without the nil check.
isNilValueNever(val) == FALSE

\* The first switch of toString: val is a nil pointer or a nil interface.
isNilValue(val) == val.shape \in {"ptr", "iface"} /\ val.isNil

\* The switch over derefType.Kind(): the text of a value of a primitive kind.
formatKind(derefVal, derefType, config) ==
    CASE derefType.Kind = "bool"   -> Formatted("bool", IF derefVal.b THEN config.True
                                                                    ELSE config.False)
      [] derefType.Kind = "string" -> Formatted("string", <<"verbatim">>)
      [] derefType.Kind \in {"float32", "float64"} -> Formatted("float", <<"FormatFloat">>)
      [] derefType.Kind \in {"int", "int8", "int16", "int32", "int64"} ->
                                      Formatted("int", <<"FormatInt", 10>>)
      [] derefType.Kind \in {"uint", "uint8", "uint16", "uint32", "uint64"} ->
                                      Formatted("uint", <<"FormatUint", 10>>)
      [] OTHER -> [done |-> FALSE]

\* The rest of toString for a value that is of no primitive kind: the three
\* Stringer assertions, the []byte case and fmt.Sprint. val.Addr() panics for
\* a value that is not addressable.
formatOther(val, derefVal) ==
    IF IsStringer(DynamicType(val)) THEN Formatted("stringer", <<"String", "val">>)
    ELSE IF ~val.addr THEN FormatPanic
    ELSE IF IsStringer(PointerTo(TypeOfValue(val)))
         THEN Formatted("stringer", <<"String", "addr">>)
    ELSE IF IsStringer(DynamicType(derefVal))
         THEN Formatted("stringer", <<"String", "deref">>)
    ELSE IF DynamicType(derefVal).Name = "[]byte" THEN Formatted("bytes", <<"string(x)">>)
    ELSE Formatted("sprint", <<"Sprint">>)

\* txt.toString(val)
toString(val, config) ==
    LET d == DerefValueAndType(val)
    IN IF d.t.Name \in config.TypeFormatters
       THEN Formatted("custom", <<"FormatValue", d.t.Name>>)
       ELSE IF isNilValue(val) THEN Formatted("nil", config.Nil)
       ELSE IF formatKind(d.v, d.t, config).done THEN formatKind(d.v, d.t, config)
       ELSE formatOther(val, d.v)

----------------------------------------------------------------------------
(* The formatter as a state machine *)

\* The types of the formatted values: the primitive kinds, types with a
\* registered formatter, types with a String method and types without.
FormatTypes ==
    {NamedType("bool", "bool", "none"),
     NamedType("string", "string", "none"),
     NamedType("float64", "float64", "none"),
     NamedType("int", "int", "none"),
     NamedType("uint8", "uint8", "none"),
     NamedType("MyInt", "int", "value"),
     NamedType("time.Duration", "int64", "value"),
     NamedType("time.Time", "struct", "value"),
     NamedType("Point", "struct", "value"),
     NamedType("Buffer", "struct", "pointer"),
     NamedType("Plain", "struct", "none"),
     NamedType("[]byte", "slice", "none")}

\* The values handed to toString.
FormatValues ==
    {Value(t, shape, isNil, addr, b) :
        t \in FormatTypes, shape \in {"value", "ptr", "iface"},
        isNil \in BOOLEAN, addr \in BOOLEAN, b \in BOOLEAN}

\* The configurations: NewTextFormatConfig and NewEnglishTextFormatConfig,
\* with "N/A" for nil and with formatters registered for primitive types.
FormatConfigs ==
    {TextFormatConfig(nil, tf[1], tf[2], reg) :
        nil \in {"", "N/A"},
        tf \in {<<"true", "false">>, <<"YES", "NO">>},
        reg \in {{}, {"time.Time", "time.Duration"},
                 {"time.Time", "time.Duration", "bool", "string", "int", "float64"}}}

FormatInit ==
    /\ DriversIdle
    /\ ShipIdle /\ CfgIdle /\ NameIdle /\ FieldsIdle /\ WalkIdle /\ ExampleIdle /\ CompactIdle /\ DetectIdle /\ RoundTripIdle
    /\ \E val \in FormatValues, config \in FormatConfigs :
          /\ val.isNil => val.shape # "value"
          /\ val.b => (val.T.Kind = "bool" /\ ~val.isNil)
          /\ fmtArgs = [val |-> val, config |-> config]
    /\ fmtOut = NoFmtOut

\* fields[i] = txt.toString(val)
CallToString ==
    /\ ~fmtOut.done
    /\ fmtOut' = toString(fmtArgs.val, fmtArgs.config)
    /\ UNCHANGED <<fmtArgs, fmtFrame>>

FormatNext == CallToString

SpecFormat == FormatInit /\ [][FormatNext]_vars

----------------------------------------------------------------------------
(* Claims about the formatter *)

\* The value is not a nil pointer and not a nil interface.
NonNil(val) == ~(val.shape \in {"ptr", "iface"} /\ val.isNil)

\* The type a pointer is dereferenced to.
DerefType(val) == IF val.shape = "iface" THEN InterfaceType ELSE val.T

\* The first rule that matches, in the order custom formatter, primitive
\* kind, Stringer, byte slice, default conversion.
FirstMatchingRule(val, config) ==
    LET t == DerefType(val)
    IN IF t.Name \in config.TypeFormatters THEN "custom"
       ELSE IF t.Kind = "bool" THEN "bool"
       ELSE IF t.Kind = "string" THEN "string"
       ELSE IF t.Kind \in {"float32", "float64"} THEN "float"
       ELSE IF t.Kind \in {"int", "int8", "int16", "int32", "int64"} THEN "int"
       ELSE IF t.Kind \in {"uint", "uint8", "uint16", "uint32", "uint64"} THEN "uint"
       ELSE IF IsStringer(DynamicType(val)) \/ IsStringer(PointerTo(TypeOfValue(val)))
            THEN "stringer"
       ELSE IF DynamicType(val).Name = "[]byte" \/ t.Name = "[]byte" THEN "bytes"
       ELSE "sprint"

\* C16: for a non-nil value toString applies the first matching rule in the
\* order custom formatter of the dereferenced type, primitive kind, Stringer
\* method, byte slice, default string conversion, with the True or False
\* token for a bool.
C16_FirstMatchingRule ==
    (fmtOut.done /\ NonNil(fmtArgs.val) /\ fmtArgs.val.shape # "iface") =>
        /\ ~fmtOut.panicked
        /\ fmtOut.rule = FirstMatchingRule(fmtArgs.val, fmtArgs.config)
        /\ fmtOut.rule = "bool" =>
              fmtOut.text = IF fmtArgs.val.b THEN fmtArgs.config.True
                            ELSE fmtArgs.config.False

\* C17: formatting a nil pointer or a nil interface returns the configured
\* Nil token, for every pointee type, also one with a registered formatter;
\* the formatter is not invoked and nothing panics.
C17_NilToken ==
    (fmtOut.done /\ ~NonNil(fmtArgs.val)) =>
        /\ ~fmtOut.panicked
        /\ fmtOut.rule = "nil"
        /\ fmtOut.text = fmtArgs.config.Nil

\* C17 witness: a nil *time.Time was formatted with a formatter registered
\* for time.Time and "N/A" configured for nil.
C17_Witness ==
    /\ fmtOut.done
    /\ fmtArgs.val.shape = "ptr" /\ fmtArgs.val.isNil
    /\ fmtArgs.val.T.Name = "time.Time"
    /\ "time.Time" \in fmtArgs.config.TypeFormatters
    /\ fmtArgs.config.Nil = "N/A"
    /\ fmtOut.text = "N/A"

----------------------------------------------------------------------------
(* The With... methods of ReflectColumnTitles, with maps held by reference *)

\* A ReflectColumnTitles whose MapIndices is a reference: 0 for the nil map,
\* else the position of the map in the heap.
WithIgnoreTitle(n, ignoreTitle) == [n EXCEPT !.IgnoreTitle = ignoreTitle]

\* m[k] = v on a map m.
MapPut(m, k, v) == [x \in (DOMAIN m) \cup {k} |-> IF x = k THEN v ELSE m[x]]

\* n.WithMapIndex(fieldIndex, columnIndex) on the heap h: mod := *n copies
\* the reference, a nil map is replaced by a new one, and the entry is
\* written through the reference.
WithMapIndex(h, n, fieldIndex, columnIndex) ==
    LET made == IF n.MapIndices = 0 THEN Append(h, <<>>) ELSE h
        ref  == IF n.MapIndices = 0 THEN Len(made) ELSE n.MapIndices
    IN [heap |-> [made EXCEPT ![ref] = MapPut(@, fieldIndex, columnIndex)],
        mod  |-> [n EXCEPT !.MapIndices = ref]]

\* n.WithIgnoreIndex(fieldIndex)
WithIgnoreIndex(h, n, fieldIndex) == WithMapIndex(h, n, fieldIndex, -1)

\* The ReflectColumnTitles as a value: the entries of its map in place of the
\* reference.
Resolve(h, n) ==
    [n EXCEPT !.MapIndices = IF n.MapIndices = 0 THEN NilMap ELSE MapOf(h[n.MapIndices])]

\* The maps a first ReflectColumnTitles holds: none, an empty one, one entry.
FirstMaps == {<<>>, [x \in {0} |-> 1]}

CfgCall(op, recv, before) == [done |-> TRUE, op |-> op, recv |-> recv, before |-> before]

CfgInit ==
    /\ DriversIdle
    /\ ShipIdle /\ FormatIdle /\ NameIdle /\ FieldsIdle /\ WalkIdle /\ ExampleIdle /\ CompactIdle /\ DetectIdle /\ RoundTripIdle
    /\ \/ /\ cfgHeap = <<>>
          /\ cfgs = <<[DefaultReflectColumnTitles EXCEPT !.MapIndices = 0]>>
       \/ \E m \in FirstMaps :
             /\ cfgHeap = <<m>>
             /\ cfgs = <<[DefaultReflectColumnTitles EXCEPT !.MapIndices = 1]>>
    /\ cfgCall = NoCfgCall

\* mod := n.WithTag(tag)
CallWithTag ==
    /\ Len(cfgs) < MaxConfigs
    /\ \E recv \in 1..Len(cfgs), tag \in {"json"} :
          /\ cfgs' = Append(cfgs, WithTag(cfgs[recv], tag))
          /\ cfgCall' = CfgCall("WithTag", recv, Resolve(cfgHeap, cfgs[recv]))
    /\ UNCHANGED <<cfgHeap, cfgFrame>>

\* mod := n.WithIgnoreTitle(ignoreTitle)
CallWithIgnoreTitle ==
    /\ Len(cfgs) < MaxConfigs
    /\ \E recv \in 1..Len(cfgs), ignoreTitle \in {<<"x">>} :
          /\ cfgs' = Append(cfgs, WithIgnoreTitle(cfgs[recv], ignoreTitle))
          /\ cfgCall' = CfgCall("WithIgnoreTitle", recv, Resolve(cfgHeap, cfgs[recv]))
    /\ UNCHANGED <<cfgHeap, cfgFrame>>

\* mod := n.WithMapIndex(fieldIndex, columnIndex)
CallWithMapIndex ==
    /\ Len(cfgs) < MaxConfigs
    /\ \E recv \in 1..Len(cfgs), fieldIndex \in 0..1, columnIndex \in 0..1 :
          LET r == WithMapIndex(cfgHeap, cfgs[recv], fieldIndex, columnIndex)
          IN /\ cfgHeap' = r.heap
             /\ cfgs' = Append(cfgs, r.mod)
             /\ cfgCall' = CfgCall("WithMapIndex", recv, Resolve(cfgHeap, cfgs[recv]))
    /\ UNCHANGED cfgFrame

\* mod := n.WithIgnoreIndex(fieldIndex)
CallWithIgnoreIndex ==
    /\ Len(cfgs) < MaxConfigs
    /\ \E recv \in 1..Len(cfgs), fieldIndex \in 0..1 :
          LET r == WithIgnoreIndex(cfgHeap, cfgs[recv], fieldIndex)
          IN /\ cfgHeap' = r.heap
             /\ cfgs' = Append(cfgs, r.mod)
             /\ cfgCall' = CfgCall("WithIgnoreIndex", recv, Resolve(cfgHeap, cfgs[recv]))
    /\ UNCHANGED cfgFrame

\* mod := n.WithMapIndices(mapIndices), with nil or with a map of the caller
CallWithMapIndices ==
    /\ Len(cfgs) < MaxConfigs
    /\ \E recv \in 1..Len(cfgs) :
          /\ \/ /\ cfgHeap' = cfgHeap
                /\ cfgs' = Append(cfgs, WithMapIndices(cfgs[recv], 0))
             \/ /\ cfgHeap' = Append(cfgHeap, [x \in {1} |-> 0])
                /\ cfgs' = Append(cfgs, WithMapIndices(cfgs[recv], Len(cfgHeap) + 1))
          /\ cfgCall' = CfgCall("WithMapIndices", recv, Resolve(cfgHeap, cfgs[recv]))
    /\ UNCHANGED cfgFrame

CfgNext ==
    \/ CallWithTag
    \/ CallWithIgnoreTitle
    \/ CallWithMapIndex
    \/ CallWithIgnoreIndex
    \/ CallWithMapIndices

SpecCopies == CfgInit /\ [][CfgNext]_vars

----------------------------------------------------------------------------
(* Claims about the With... methods *)

\* C18: WithTag, WithIgnoreTitle, WithMapIndex, WithIgnoreIndex and
\* WithMapIndices leave the receiver unchanged: after the call its Tag, its
\* IgnoreTitle and the entries of its MapIndices are as before, and it maps
\* the columns of a struct type as before.
C18_ReceiverUnchanged ==
    cfgCall.done =>
        LET now == Resolve(cfgHeap, cfgs[cfgCall.recv])
        IN /\ now.Tag = cfgCall.before.Tag
           /\ now.IgnoreTitle = cfgCall.before.IgnoreTitle
           /\ now.MapIndices = cfgCall.before.MapIndices
           /\ mapColumns(now, StructFieldTypes(TestStruct))
                 = mapColumns(cfgCall.before, StructFieldTypes(TestStruct))

----------------------------------------------------------------------------
(* SpacePascalCase as a state machine *)

\* The characters of the generated names: upper case, lower case, digit, underscore.
NameAlphabet == {"A", "B", "c", "1", "_"}

\* The names of TestSpacePascalCase with the titles it expects, and "UserID".
ExampleNames ==
    {<<<<>>,
       <<>>>>,
     <<<<"H", "e", "l", "l", "o", "W", "o", "r", "l", "d">>,
       <<"H", "e", "l", "l", "o", " ", "W", "o", "r", "l", "d">>>>,
     <<<<"_", "H", "e", "l", "l", "o", "_", "W", "o", "r", "l", "d">>,
       <<"H", "e", "l", "l", "o", " ", "W", "o", "r", "l", "d">>>>,
     <<<<"h", "e", "l", "l", "o", "W", "o", "r", "l", "d", "_">>,
       <<"h", "e", "l", "l", "o", " ", "W", "o", "r", "l", "d">>>>,
     <<<<"T", "h", "i", "s", "H", "a", "s", "M", "o", "r", "e", "_", "S", "p", "a", "c", "e", "s", "_", "_", "F", "o", "r", "S", "u", "r", "e">>,
       <<"T", "h", "i", "s", " ", "H", "a", "s", " ", "M", "o", "r", "e", " ", "S", "p", "a", "c", "e", "s", " ", "F", "o", "r", " ", "S", "u", "r", "e">>>>,
     <<<<"U", "s", "e", "r", "I", "D">>,
       <<"U", "s", "e", "r", " ", "I", "D">>>>}

\* The names handed to SpacePascalCase.
Names ==
    UNION {[1..n -> NameAlphabet] : n \in 0..MaxNameLen} \cup {e[1] : e \in ExampleNames}

NameInit ==
    /\ DriversIdle
    /\ ShipIdle /\ FormatIdle /\ CfgIdle /\ FieldsIdle /\ WalkIdle /\ ExampleIdle /\ CompactIdle /\ DetectIdle /\ RoundTripIdle
    /\ fieldName \in Names
    /\ spacedName = [done |-> FALSE]

\* title := SpacePascalCase(name)
CallSpacePascalCase ==
    /\ ~spacedName.done
    /\ spacedName' = [done |-> TRUE, title |-> SpacePascalCase(fieldName)]
    /\ UNCHANGED <<fieldName, nameFrame>>

NameNext == CallSpacePascalCase

SpecNames == NameInit /\ [][NameNext]_vars

----------------------------------------------------------------------------
(* Claims about SpacePascalCase *)

\* What position i of the name contributes: a space for the first underscore
\* of a run, nothing for the others, a space and the letter for an upper case
\* letter after a character that is neither upper case nor an underscore,
\* else the character.
Contribution(s, i) ==
    IF s[i] = "_"
    THEN (IF i > 1 /\ s[i - 1] = "_" THEN <<>> ELSE <<" ">>)
    ELSE IF IsUpper(s[i]) /\ i > 1 /\ ~IsUpper(s[i - 1]) /\ s[i - 1] # "_"
         THEN <<" ", s[i]>>
         ELSE <<s[i]>>

RECURSIVE Contributions(_, _)
\* The contributions of the positions i .. Len(s), joined.
Contributions(s, i) ==
    IF i > Len(s) THEN <<>> ELSE Contribution(s, i) \o Contributions(s, i + 1)

RECURSIVE StripSpaces(_)
\* s without its leading and trailing spaces.
StripSpaces(s) ==
    IF s = <<>> THEN s
    ELSE IF Head(s) = " " THEN StripSpaces(Tail(s))
    ELSE IF s[Len(s)] = " " THEN StripSpaces(SubSeq(s, 1, Len(s) - 1))
    ELSE s

\* C19: SpacePascalCase returns the characters of the name in order, every
\* run of underscores replaced by one space, a space before each upper case
\* letter that follows a character that is neither upper case nor an
\* underscore, without leading or trailing space; the examples give their
\* titles.
C19_SpacePascalCase ==
    spacedName.done =>
        /\ spacedName.title = StripSpaces(Contributions(fieldName, 1))
        /\ spacedName.title # <<>> =>
              spacedName.title[1] # " " /\ spacedName.title[Len(spacedName.title)] # " "
        /\ SelectSeq(spacedName.title, LAMBDA c : c # " ")
              = SelectSeq(fieldName, LAMBDA c : c # "_")
        /\ \A e \in ExampleNames : fieldName = e[1] => spacedName.title = e[2]

\* C19 witness: "cB__A_" was spaced to "c B A".
C19_Witness ==
    /\ spacedName.done
    /\ fieldName = <<"c", "B", "_", "_", "A", "_">>
    /\ spacedName.title = <<"c", " ", "B", " ", "A">>

----------------------------------------------------------------------------
(* StructFieldTypes as a state machine *)

\* The digits that number the levels of a generated struct type.
Digits == <<"0", "1", "2", "3", "4", "5">>

\* A leaf field at level d on the given side of the embedded field: kind
\* "exported" or "hidden".
LeafField(kind, d, side) ==
    Field(<<IF kind = "exported" THEN "F" ELSE "f", Digits[d + 1], side>>, {},
          FALSE, Prim("int"))

\* The leaf fields put on one side of an embedded field: none or one.
LeafRuns(d, side) ==
    {<<>>} \cup {<<LeafField(kind, d, side)>> : kind \in {"exported", "hidden"}}

\* The embedded field of type s: a struct by value under an exported name or
\* a pointer to the struct under an unexported name.
EmbeddedFields(s, d) ==
    {Field(<<"E", Digits[d + 1]>>, {}, TRUE, s),
     Field(<<"e", Digits[d + 1]>>, {}, TRUE, PtrTo(s))}

RECURSIVE NestedStructs(_)
\* The struct types that embed d levels of structs: at each level an
\* embedded field with leaf fields before and after it.
NestedStructs(d) ==
    IF d = 0
    THEN {StructOf(a \o z) : a \in LeafRuns(0, "a"), z \in LeafRuns(0, "z")}
    ELSE LET embedded == UNION {EmbeddedFields(s, d) : s \in NestedStructs(d - 1)}
         IN {StructOf(a \o <<e>> \o z) :
                a \in LeafRuns(d, "a"), z \in LeafRuns(d, "z"), e \in embedded}

RECURSIVE PointerPaths(_, _)
\* The pointers StructFieldValues follows in a struct value of type t found
\* at path: the value itself when t is a pointer type, and the embedded
\* fields of pointer type at any depth. Elem() of a nil pointer is the zero
\* Value, and Type() of the zero Value panics.
PointerPaths(t, path) ==
    LET st == IF t.Kind = "ptr" THEN t.Elem[1] ELSE t
    IN (IF t.Kind = "ptr" THEN {path} ELSE {})
       \cup UNION {PointerPaths(st.Fields[i].Type, Append(path, i)) :
                      i \in {j \in 1..Len(st.Fields) : st.Fields[j].Anonymous}}

\* Struct types written out in full, with pointers to some of them.
FlatTypes ==
    {TestStruct, InnerStruct, EmbeddingStruct, PtrTo(EmbeddingStruct), PtrTo(TestStruct)}

FieldsInit ==
    /\ DriversIdle
    /\ ShipIdle /\ FormatIdle /\ CfgIdle /\ NameIdle /\ WalkIdle /\ ExampleIdle /\ CompactIdle /\ DetectIdle /\ RoundTripIdle
    /\ \/ \E d \in 0..MaxEmbedDepth : flatType \in NestedStructs(d)
       \/ flatType \in FlatTypes
    /\ flatOut = [done |-> FALSE]
    /\ flatNil \in {{}} \cup {{q} : q \in PointerPaths(flatType, <<>>)}
    /\ flatVals = [done |-> FALSE]

\* fields := StructFieldTypes(structType)
CallStructFieldTypes ==
    /\ ~flatOut.done
    /\ flatOut' = [done |-> TRUE, fields |-> StructFieldTypes(flatType)]
    /\ UNCHANGED <<flatType, flatNil, flatVals, fieldFrame>>

\* values := StructFieldValues(structValue), for a structValue of the type
\* handed to StructFieldTypes before.
CallStructFieldValues ==
    /\ flatOut.done
    /\ ~flatVals.done
    /\ flatVals' = IF PointerPaths(flatType, <<>>) \cap flatNil # {}
                   THEN [done |-> TRUE, panicked |-> TRUE, values |-> <<>>]
                   ELSE [done |-> TRUE, panicked |-> FALSE,
                         values |-> StructFieldValues(flatType, <<>>)]
    /\ UNCHANGED <<flatType, flatOut, flatNil, fieldFrame>>

FieldsNext == CallStructFieldTypes \/ CallStructFieldValues

SpecFields == FieldsInit /\ [][FieldsNext]_vars

----------------------------------------------------------------------------
(* Claims about StructFieldTypes *)

\* The struct type behind t.
StructBehind(t) == IF t.Kind = "ptr" THEN t.Elem[1] ELSE t

RECURSIVE VisiblePaths(_)
\* The paths of declared field positions that lead through embedded fields
\* only to a field that is exported and not embedded.
VisiblePaths(t) ==
    LET fields == StructBehind(t).Fields
    IN UNION {IF fields[i].Anonymous
              THEN {<<i>> \o q : q \in VisiblePaths(fields[i].Type)}
              ELSE IF IsExported(fields[i].Name) THEN {<<i>>} ELSE {} :
              i \in 1..Len(fields)}

RECURSIVE FieldAtPath(_, _)
\* The field a path leads to.
FieldAtPath(t, q) ==
    LET f == StructBehind(t).Fields[q[1]]
    IN IF Len(q) = 1 THEN f ELSE FieldAtPath(f.Type, Tail(q))

\* Path q comes before path r in depth-first declaration order.
PathBefore(q, r) ==
    \E k \in 1..Min({Len(q), Len(r)}) :
        /\ q[k] < r[k]
        /\ \A j \in 1..(k - 1) : q[j] = r[j]

\* C20: StructFieldTypes returns the exported, not embedded fields in
\* depth-first declaration order, the fields of an embedded struct in place
\* of the embedded field; no embedded field and no non-exported field appears.
C20_FlattenedInOrder ==
    flatOut.done =>
        LET paths == VisiblePaths(flatType)
            rank(q) == Cardinality({r \in paths : PathBefore(r, q)}) + 1
        IN /\ Len(flatOut.fields) = Cardinality(paths)
           /\ \A q \in paths : flatOut.fields[rank(q)] = FieldAtPath(flatType, q)
           /\ \A i \in 1..Len(flatOut.fields) :
                 ~flatOut.fields[i].Anonymous /\ IsExported(flatOut.fields[i].Name)

\* C20 witness: a struct with two levels of embedding, the inner level behind
\* a pointer, with a hidden field at the innermost level, was flattened to
\* fields of all three levels.
C20_Witness ==
    /\ flatOut.done
    /\ flatType.Kind = "struct"
    /\ \E i \in 1..Len(flatType.Fields) :
          /\ flatType.Fields[i].Anonymous
          /\ flatType.Fields[i].Type.Kind = "ptr"
          /\ \E j \in 1..Len(flatType.Fields[i].Type.Elem[1].Fields) :
                LET inner == flatType.Fields[i].Type.Elem[1].Fields[j]
                IN /\ inner.Anonymous
                   /\ \E k \in 1..Len(inner.Type.Fields) :
                         ~IsExported(inner.Type.Fields[k].Name)
    /\ Len(flatOut.fields) = 5

----------------------------------------------------------------------------
(* Claims about StructFieldValues *)

\* C21: StructFieldValues of a value of the type has as many elements as
\* StructFieldTypes of the type, and its i-th element is the value of the
\* field that the i-th element of StructFieldTypes describes.
C21_ValuesAlignedWithTypes ==
    flatVals.done =>
        /\ ~flatVals.panicked
        /\ Len(flatVals.values) = Len(flatOut.fields)
        /\ \A i \in 1..Len(flatVals.values) :
              FieldAtPath(flatType, flatVals.values[i].path) = flatOut.fields[i]

\* C21 without the values that hold a nil pointer on the way.
C21_AlignedWithoutNil ==
    (flatVals.done /\ flatNil = {}) =>
        /\ ~flatVals.panicked
        /\ Len(flatVals.values) = Len(flatOut.fields)
        /\ \A i \in 1..Len(flatVals.values) :
              FieldAtPath(flatType, flatVals.values[i].path) = flatOut.fields[i]

----------------------------------------------------------------------------
(* StructFieldTypes step by step, over declared struct types *)

\* The fields a declared struct type number n of count may have: an exported
\* or a hidden field, a struct embedded through a pointer (any declared type,
\* the type itself included), or a struct embedded by value (a type declared
\* later only, as the compiler rejects a struct that contains itself).
DeclFields(n, count) ==
    {[kind |-> k] : k \in {"exported", "hidden"}}
    \cup {[kind |-> "embedded", ptr |-> TRUE, type |-> k] : k \in 1..count}
    \cup {[kind |-> "embedded", ptr |-> FALSE, type |-> k] : k \in (n + 1)..count}

\* The field lists of declared struct type n.
DeclFieldLists(n, count) ==
    UNION {[1..len -> DeclFields(n, count)] : len \in 0..MaxDeclFields}

\* The call StructFieldTypes(t) at its first loop iteration.
WalkFrame(t) == [type |-> t, i |-> 1]

WalkInit ==
    /\ DriversIdle
    /\ ShipIdle /\ FormatIdle /\ CfgIdle /\ NameIdle /\ FieldsIdle /\ ExampleIdle /\ CompactIdle /\ DetectIdle /\ RoundTripIdle
    /\ \E count \in 1..MaxTypeNames :
          /\ walkDecls \in [1..count -> UNION {DeclFieldLists(n, count) : n \in 1..count}]
          /\ \A n \in 1..count : walkDecls[n] \in DeclFieldLists(n, count)
    /\ walkStack = <<WalkFrame(1)>>
    /\ walkOut = <<>>
    /\ walkPhase = "running"

\* The call in progress and the field its loop is at.
WalkTop == walkStack[Len(walkStack)]

WalkAtField ==
    /\ walkPhase = "running"
    /\ WalkTop.i <= Len(walkDecls[WalkTop.type])

WalkField == walkDecls[WalkTop.type][WalkTop.i]

\* The stack with the loop of the call in progress moved to its next field.
WalkAdvanced == [walkStack EXCEPT ![Len(walkStack)].i = @ + 1]

\* One loop iteration for a field that is not embedded:
\* case token.IsExported(field.Name): fields = append(fields, field)
StepField ==
    /\ WalkAtField
    /\ WalkField.kind # "embedded"
    /\ walkOut' = IF WalkField.kind = "exported"
                  THEN Append(walkOut, <<WalkTop.type, WalkTop.i>>)
                  ELSE walkOut
    /\ walkStack' = WalkAdvanced
    /\ UNCHANGED <<walkDecls, walkPhase, walkFrame>>

\* One loop iteration for an embedded field, up to the entry into the
\* recursive call: case field.Anonymous: StructFieldTypes(field.Type). The
\* call needs a new stack frame; without room for it the runtime ends the
\* program with a stack overflow.
StepEmbedded ==
    /\ WalkAtField
    /\ WalkField.kind = "embedded"
    /\ IF Len(walkStack) < MaxCallDepth
       THEN /\ walkStack' = Append(WalkAdvanced, WalkFrame(WalkField.type))
            /\ walkPhase' = "running"
       ELSE /\ walkStack' = walkStack
            /\ walkPhase' = "stack overflow"
    /\ UNCHANGED <<walkDecls, walkOut, walkFrame>>

\* The loop of the call in progress is over: return fields.
StepReturn ==
    /\ walkPhase = "running"
    /\ WalkTop.i > Len(walkDecls[WalkTop.type])
    /\ walkStack' = SubSeq(walkStack, 1, Len(walkStack) - 1)
    /\ walkPhase' = IF Len(walkStack) = 1 THEN "returned" ELSE "running"
    /\ UNCHANGED <<walkDecls, walkOut, walkFrame>>

WalkNext == StepField \/ StepEmbedded \/ StepReturn

SpecFlatten == WalkInit /\ [][WalkNext]_vars

\* The goroutine that called StructFieldTypes keeps running.
SpecFlattenFair == SpecFlatten /\ WF_vars(WalkNext)

----------------------------------------------------------------------------
(* Claims about the termination of StructFieldTypes *)

\* C22: StructFieldTypes returns for every struct type, also for one that
\* embeds a pointer to itself, directly or through other types.
C22_FlattenTerminates == <>(walkPhase = "returned")

\* C22 for the declared types of which none is reached again from one of its
\* own embedded fields: the call returns and never runs out of stack.
C22_AcyclicTerminates ==
    LET Reach(n) ==
            LET step(S) == S \cup {walkDecls[m][i].type :
                                     <<m, i>> \in {p \in S \X (1..MaxDeclFields) :
                                        /\ p[2] <= Len(walkDecls[p[1]])
                                        /\ walkDecls[p[1]][p[2]].kind = "embedded"}}
                first == {walkDecls[n][i].type :
                            i \in {j \in 1..Len(walkDecls[n]) :
                                      walkDecls[n][j].kind = "embedded"}}
            IN step(step(step(first)))
    IN (\A n \in 1..Len(walkDecls) : n \notin Reach(n)) => walkPhase # "stack overflow"

----------------------------------------------------------------------------
(* Render of records with values *)

DecimalDigits == <<"0", "1", "2", "3", "4", "5", "6", "7", "8", "9">>

RECURSIVE FormatUint(_)
\* strconv.FormatUint(n, 10)
FormatUint(n) ==
    IF n < 10 THEN <<DecimalDigits[n + 1]>>
    ELSE FormatUint(n \div 10) \o <<DecimalDigits[(n % 10) + 1]>>

\* strconv.FormatInt(n, 10)
FormatInt(n) == IF n < 0 THEN <<"-">> \o FormatUint(-n) ELSE FormatUint(n)

\* The record type {Name string, Age int, City string}.
ExampleStruct ==
    StructOf(<<Field(<<"N", "a", "m", "e">>, {}, FALSE, Prim("string")),
               Field(<<"A", "g", "e">>, {}, FALSE, Prim("int")),
               Field(<<"C", "i", "t", "y">>, {}, FALSE, Prim("string"))>>)

\* The three records of the example, in its order.
ExampleSlice ==
    << <<<<"A", "n", "n">>, 30, <<"L", "i", "n", "z">>>>,
       <<<<"B", "o">>, 41, <<"G", "r", "a", "z">>>>,
       <<<<"C", "y">>, 19, <<"W", "e", "l", "s">>>> >>

\* The records a rendered slice is made of.
ExampleRecords ==
    {ExampleSlice[i] : i \in 1..3} \cup {<<<<>>, -7, <<"W", "i", "e", "n">>>>}

\* The text of a cell: the field value the cell names, formatted by toString
\* under NewTextFormatConfig.
CellText(slice, cell) ==
    LET datum == slice[cell.text[1] + 1][cell.text[2]]
        kind  == ExampleStruct.Fields[cell.text[2]].Type.Kind
        f     == toString(Value(NamedType(kind, kind, "none"), "value", FALSE, TRUE, FALSE),
                          TextFormatConfig("", "true", "false", {"time.Time", "time.Duration"}))
    IN CASE f.text = <<"verbatim">>      -> datum
         [] f.text = <<"FormatInt", 10>> -> FormatInt(datum)

ExampleInit ==
    /\ DriversIdle
    /\ ShipIdle /\ FormatIdle /\ CfgIdle /\ NameIdle /\ FieldsIdle /\ WalkIdle /\ CompactIdle /\ DetectIdle /\ RoundTripIdle
    /\ \E n \in 0..MaxExampleRows :
       \E slice \in [1..n -> ExampleRecords], renderTitleRow \in BOOLEAN, fuse \in 0..(n + 2) :
          exIn = [slice |-> slice, renderTitleRow |-> renderTitleRow, fuse |-> fuse]
    /\ exOut = [done |-> FALSE]

\* err := Render(txt, structSlice, renderTitleRow, DefaultReflectColumnTitles)
\* on a new TextRenderer.
CallRenderExample ==
    /\ ~exOut.done
    /\ LET r == Render(RenderState(NewTextRenderer, <<>>, exIn.fuse),
                       [isSlice |-> TRUE, elem |-> ExampleStruct, len |-> Len(exIn.slice)],
                       exIn.renderTitleRow, DefaultReflectColumnTitles)
           received(h) == IF h.hook # "row" THEN h
                          ELSE [h EXCEPT !.arg = [c \in 1..Len(h.arg) |->
                                                     CellText(exIn.slice, h.arg[c])]]
       IN exOut' = [done |-> TRUE, err |-> r.err,
                    hooks |-> [k \in 1..Len(r.b.hooks) |-> received(r.b.hooks[k])]]
    /\ UNCHANGED <<exIn, exFrame>>

ExampleNext == CallRenderExample

SpecExample == ExampleInit /\ [][ExampleNext]_vars

----------------------------------------------------------------------------
(* Claims about the rendered example *)

\* C24: rendering the three example records with the default column mapper,
\* the default format configuration and the title row hands the backend the
\* header Name, Age, City and then the rows Ann 30 Linz, Bo 41 Graz and
\* Cy 19 Wels, in that order.
C24_ExampleTable ==
    (exOut.done /\ exIn.slice = ExampleSlice /\ exIn.renderTitleRow /\ exIn.fuse = 0) =>
        /\ ~exOut.err
        /\ exOut.hooks =
             <<OkHook("begin", <<>>),
               OkHook("header", <<<<"N", "a", "m", "e">>, <<"A", "g", "e">>,
                                  <<"C", "i", "t", "y">>>>),
               OkHook("row", <<<<"A", "n", "n">>, <<"3", "0">>, <<"L", "i", "n", "z">>>>),
               OkHook("row", <<<<"B", "o">>, <<"4", "1">>, <<"G", "r", "a", "z">>>>),
               OkHook("row", <<<<"C", "y">>, <<"1", "9">>, <<"W", "e", "l", "s">>>>)>>

\* C24 witness: the three example records were rendered with the title row
\* and no hook failed.
C24_Witness ==
    /\ exOut.done
    /\ exIn.slice = ExampleSlice
    /\ exIn.renderTitleRow
    /\ exIn.fuse = 0
    /\ Len(exOut.hooks) = 5

----------------------------------------------------------------------------
(* csv: compactSpacedString *)

\* The number of bytes of the UTF-8 encoding of a rune.
RuneLen(r) == CASE r = "ö" -> 2 [] r = "€" -> 3 [] OTHER -> 1

RECURSIVE ByteLen(_)
\* len(str): the number of bytes of a string, given as its runes.
ByteLen(str) == IF str = <<>> THEN 0 ELSE RuneLen(Head(str)) + ByteLen(Tail(str))

\* The runes of str at the even positions (zero based), as written to the
\* strings.Builder.
EvenRunes(str) == [k \in 1..((Len(str) + 1) \div 2) |-> str[2 * k - 1]]

\* compactSpacedString(str); position k of the sequence is rune index k - 1.
compactSpacedString(str) ==
    IF ByteLen(str) < 3 THEN [cleaned |-> str, modified |-> FALSE]
    ELSE IF \E k \in 1..Len(str) : k % 2 = 0 /\ str[k] # " "
    THEN [cleaned |-> str, modified |-> FALSE]
    ELSE [cleaned |-> EvenRunes(str), modified |-> TRUE]

\* The runes of the strings: a letter, a space, and letters of two and three
\* bytes.
CompactRunes == {"a", " ", "ö", "€"}

CompactInit ==
    /\ DriversIdle
    /\ ShipIdle /\ FormatIdle /\ CfgIdle /\ NameIdle /\ FieldsIdle /\ WalkIdle /\ ExampleIdle /\ DetectIdle /\ RoundTripIdle
    /\ \E n \in 0..MaxCompactLen : csIn \in [1..n -> CompactRunes]
    /\ csOut = [done |-> FALSE]

\* cleaned, modified := compactSpacedString(field)
CallCompactSpacedString ==
    /\ ~csOut.done
    /\ csOut' = [done |-> TRUE, cleaned |-> compactSpacedString(csIn).cleaned,
                 modified |-> compactSpacedString(csIn).modified]
    /\ UNCHANGED <<csIn, csFrame>>

CompactNext == CallCompactSpacedString

SpecCompact == CompactInit /\ [][CompactNext]_vars

----------------------------------------------------------------------------
(* Claims about compactSpacedString *)

\* C26: compactSpacedString returns modified = true exactly when the string
\* it returns differs from its argument, also for strings with multi-byte
\* characters.
C26_ModifiedIffChanged ==
    csOut.done => (csOut.modified <=> csOut.cleaned # csIn)

\* C26 for strings of two runes or more.
C26_ModifiedIffChangedFromTwoRunes ==
    (csOut.done /\ Len(csIn) >= 2) => (csOut.modified <=> csOut.cleaned # csIn)

----------------------------------------------------------------------------
(* csv: Format and the format detection *)

\* bytes.HasPrefix(SubSeq(s, i, Len(s)), sep)
HasAt(s, i, sep) ==
    /\ i + Len(sep) - 1 <= Len(s)
    /\ SubSeq(s, i, i + Len(sep) - 1) = sep

\* bytes.Count(s, sep) for a non-empty sep that does not overlap itself.
Count(s, sep) == Cardinality({i \in 1..Len(s) : HasAt(s, i, sep)})

RECURSIVE Split(_, _)
\* bytes.Split(s, sep) for a non-empty sep.
Split(s, sep) ==
    IF \A i \in 1..Len(s) : ~HasAt(s, i, sep) THEN <<s>>
    ELSE LET i == Min({j \in 1..Len(s) : HasAt(s, j, sep)})
         IN <<SubSeq(s, 1, i - 1)>> \o Split(SubSeq(s, i + Len(sep), Len(s)), sep)

\* bytes.Trim(s, cutset)
Trim(s, cutset) ==
    IF \A i \in 1..Len(s) : s[i] \in cutset THEN <<>>
    ELSE SubSeq(s, Min({i \in 1..Len(s) : s[i] \notin cutset}),
                   Max({i \in 1..Len(s) : s[i] \notin cutset}))

\* csv.Format
Format(encoding, separator, newline) ==
    [Encoding |-> encoding, Separator |-> separator, Newline |-> newline]

\* Format.Validate on a Format that is not nil: the error, "nil" for none.
Validate(f) ==
    CASE f.Encoding = ""        -> "missing csv.Format.Encoding"
      [] f.Separator = <<>>     -> "missing csv.Format.Separator"
      [] Len(f.Separator) > 1   -> "invalid csv.Format.Separator"
      [] f.Newline = <<>>       -> "missing csv.Format.Newline"
      [] f.Newline \notin {<<"\n">>, <<"\n", "\r">>, <<"\r", "\n">>}
                                -> "invalid csv.Format.Newline"
      [] OTHER                  -> "nil"

\* The line ending detectFormatAndSplitLines chooses.
detectNewline(data) ==
    LET numLinesR  == Count(data, <<"\r">>)
        numLinesN  == Count(data, <<"\n">>)
        numLinesRN == Count(data, <<"\r", "\n">>)
    IN IF numLinesR > numLinesN THEN <<"\r">>
       ELSE IF numLinesN > numLinesRN THEN <<"\n">>
       ELSE <<"\r", "\n">>

\* The separator it chooses from the counts over the non-empty lines.
detectSeparator(lines) ==
    LET total(c) == LET n[i \in 0..Len(lines)] ==
                            IF i = 0 THEN 0 ELSE n[i - 1] + Count(lines[i], <<c>>)
                    IN n[Len(lines)]
        commas     == total(",")
        semicolons == total(";")
        tabs       == total("\t")
    IN IF commas > semicolons /\ commas > tabs THEN <<",">>
       ELSE IF semicolons > commas /\ semicolons > tabs THEN <<";">>
       ELSE IF tabs > commas /\ tabs > semicolons THEN <<"\t">>
       ELSE <<",">>

\* detectFormatAndSplitLines(data, config); autoDecoded is the encoding
\* charset.AutoDecode reports for the data ("" for none, "error" when it
\* fails), and data the decoded bytes.
detectFormatAndSplitLines(data, autoDecoded) ==
    IF autoDecoded = "error" THEN [format |-> Format("", <<>>, <<>>), lines |-> <<>>, err |-> TRUE]
    ELSE LET encoding == IF autoDecoded = "" THEN "UTF-8" ELSE autoDecoded
             newline  == detectNewline(data)
             split    == Split(data, newline)
             lines    == [i \in 1..Len(split) |-> Trim(split[i], {"\r", "\n"})]
         IN IF \A i \in 1..Len(lines) : lines[i] = <<>>
            THEN [format |-> Format(encoding, <<>>, newline), lines |-> <<>>, err |-> FALSE]
            ELSE [format |-> Format(encoding, detectSeparator(lines), newline),
                  lines |-> lines, err |-> FALSE]

\* The bytes of the data: a letter, the three separators, the line endings.
DataBytes == {"a", ",", ";", "\t", "\r", "\n"}

DetectInit ==
    /\ DriversIdle
    /\ ShipIdle /\ FormatIdle /\ CfgIdle /\ NameIdle /\ FieldsIdle /\ WalkIdle /\ ExampleIdle /\ CompactIdle /\ RoundTripIdle
    /\ \E n \in 0..MaxDataLen :
       \E data \in [1..n -> DataBytes], autoDecoded \in {"", "UTF-8", "ISO 8859-1", "error"} :
          detIn = [data |-> data, autoDecoded |-> autoDecoded]
    /\ detOut = [done |-> FALSE]

\* rows, format, err := ParseStringsDetectFormat(data, config). The data holds
\* no quote, so that readLines takes every field as it is and returns no
\* error: the error is that of detectFormatAndSplitLines.
CallParseStringsDetectFormat ==
    /\ ~detOut.done
    /\ LET r == detectFormatAndSplitLines(detIn.data, detIn.autoDecoded)
       IN detOut' = [done |-> TRUE, format |-> r.format, lines |-> r.lines, err |-> r.err]
    /\ UNCHANGED <<detIn, detFrame>>

DetectNext == CallParseStringsDetectFormat

SpecDetect == DetectInit /\ [][DetectNext]_vars

----------------------------------------------------------------------------
(* Claims about the format detection *)

\* C29: every Format that the format detection returns without error passes
\* Format.Validate, also for empty data and for data whose lines end in a
\* bare carriage return.
C29_DetectedFormatValid ==
    (detOut.done /\ ~detOut.err) => Validate(detOut.format) = "nil"

\* C29 for data with a non-empty line and without more carriage returns than
\* line feeds.
C29_ValidWithLinesAndLineFeeds ==
    (/\ detOut.done /\ ~detOut.err
     /\ detOut.lines # <<>>
     /\ Count(detIn.data, <<"\r">>) <= Count(detIn.data, <<"\n">>))
    => Validate(detOut.format) = "nil"

----------------------------------------------------------------------------
(* csv: Renderer.RenderRowText and readLines *)

\* bytes.HasSuffix(s, suffix)
HasSuffix(s, suffix) ==
    /\ Len(suffix) <= Len(s)
    /\ SubSeq(s, Len(s) - Len(suffix) + 1, Len(s)) = suffix

RECURSIVE ReplaceAll(_, _, _)
\* bytes.ReplaceAll(s, old, new) for a non-empty old.
ReplaceAll(s, old, new) ==
    IF \A i \in 1..Len(s) : ~HasAt(s, i, old) THEN s
    ELSE LET i == Min({j \in 1..Len(s) : HasAt(s, j, old)})
         IN SubSeq(s, 1, i - 1) \o new
            \o ReplaceAll(SubSeq(s, i + Len(old), Len(s)), old, new)

RECURSIVE Join(_, _)
\* bytes.Join(s, sep)
Join(s, sep) ==
    IF s = <<>> THEN <<>>
    ELSE IF Len(s) = 1 THEN s[1]
    ELSE s[1] \o sep \o Join(Tail(s), sep)

doubleQuote == <<"\"">>

doubleDoubleQuote == <<"\"", "\"">>

\* What RenderRowText writes for one field.
renderField(csv, field) ==
    LET mustQuote == \/ csv.quoteAllFields
                     \/ (csv.quoteEmptyFields /\ field = <<>>)
                     \/ \E i \in 1..Len(field) :
                            field[i] \in {"\"", "\n"} \cup {csv.delimiter[j] : j \in 1..Len(csv.delimiter)}
        escaped   == ReplaceAll(field, doubleQuote, doubleDoubleQuote)
    IN IF mustQuote THEN doubleQuote \o escaped \o doubleQuote ELSE escaped

\* csv.Renderer.RenderRowText(writer, fields): the bytes written.
csv_RenderRowText(csv, fields) ==
    Join([i \in 1..Len(fields) |-> renderField(csv, fields[i])], csv.delimiter) \o csv.newLine

countQuotesLeft(str) ==
    IF \A i \in 1..Len(str) : str[i] = "\"" THEN Len(str)
    ELSE Min({i \in 1..Len(str) : str[i] # "\""}) - 1

countQuotesRight(str) ==
    IF \A i \in 1..Len(str) : str[i] = "\"" THEN Len(str)
    ELSE Len(str) - Max({i \in 1..Len(str) : str[i] # "\""})

\* countQuotesLeftRight(str) as <<left, right>>
countQuotesLeftRight(str) ==
    LET left  == countQuotesLeft(str)
        right == countQuotesRight(str)
    IN IF left = Len(str)
       THEN <<(Len(str) + 1) \div 2, Len(str) - (Len(str) + 1) \div 2>>
       ELSE <<left, right>>

\* field[1 : len(field)-1]
Unquoted(field) == SubSeq(field, 2, Len(field) - 1)

\* The line whose first field holds the closing quote of a field that begins
\* in the last field of line lineIndex; Len(lines) + 1 when there is none.
joinLineIndexFrom(lines, lineIndex, separator) ==
    LET found == {j \in lineIndex + 1..Len(lines) :
                     HasSuffix(Split(lines[j], separator)[1], doubleQuote)}
    IN IF found = {} THEN Len(lines) + 1 ELSE Min(found)

\* The first field after fields[i] that closes the quoted field begun in
\* fields[i], which has leftQuotes quotes on its left; 0 when there is none.
mergeFieldIndex(fields, i, leftQuotes) ==
    LET closes(r) == /\ Len(fields[r]) >= 2
                     /\ countQuotesLeftRight(fields[r])[1] \in {0, 2}
                     /\ leftQuotes \in {1, 3}
                     /\ countQuotesLeftRight(fields[r])[2] \in {1, 3}
        found == {r \in i + 1..Len(fields) : closes(r)}
    IN IF found = {} THEN 0 ELSE Min(found)

\* One pass of the loop over the fields of line lineIndex in readLines: the
\* lines and the fields as the pass leaves them, field the bytes it found for
\* fields[i].
readField(lines, lineIndex, fields, i, separator, newlineReplacement) ==
    LET field  == fields[i]
        quotes == countQuotesLeftRight(field)
        keep(f)  == [lines |-> lines, fields |-> fields, field |-> f, err |-> FALSE]
    IN CASE quotes = <<0, 0>> -> keep(field)
         [] quotes \in {<<1, 1>>, <<3, 1>>, <<1, 3>>, <<3, 3>>, <<2, 2>>} -> keep(Unquoted(field))
         [] quotes[1] >= 1 /\ quotes[2] = 0 ->
              IF quotes[1] = 2 THEN keep(field)
              ELSE LET joinLineIndex == IF i = Len(fields)
                                        THEN joinLineIndexFrom(lines, lineIndex, separator)
                                        ELSE 0
                   IN IF joinLineIndex > lineIndex /\ joinLineIndex <= Len(lines)
                      THEN LET joinLineFields == Split(lines[joinLineIndex], separator)
                               between[k \in lineIndex..joinLineIndex - 1] ==
                                   IF k = lineIndex THEN field
                                   ELSE between[k - 1] \o newlineReplacement \o lines[k]
                               joined == between[joinLineIndex - 1] \o newlineReplacement
                                         \o joinLineFields[1]
                           IN [lines  |-> [k \in 1..Len(lines) |->
                                              IF k > lineIndex /\ k <= joinLineIndex
                                              THEN <<>> ELSE lines[k]],
                               fields |-> fields \o Tail(joinLineFields),
                               field  |-> Unquoted(joined),
                               err    |-> FALSE]
                      ELSE LET r == mergeFieldIndex(fields, i, quotes[1])
                           IN IF r = 0 THEN keep(field)
                              ELSE [lines  |-> lines,
                                    fields |-> SubSeq(fields, 1, i)
                                               \o SubSeq(fields, r + 1, Len(fields)),
                                    field  |-> Unquoted(Join(SubSeq(fields, i, r), separator)),
                                    err    |-> FALSE]
         [] OTHER -> [lines |-> lines, fields |-> fields, field |-> field, err |-> TRUE]

RECURSIVE readFieldsFrom(_, _, _, _, _, _)
\* The loop over the fields of line lineIndex, from fields[i] on.
readFieldsFrom(lines, lineIndex, fields, i, separator, newlineReplacement) ==
    IF i > Len(fields) THEN [lines |-> lines, fields |-> fields, err |-> FALSE]
    ELSE IF Len(fields[i]) < 2
    THEN readFieldsFrom(lines, lineIndex, fields, i + 1, separator, newlineReplacement)
    ELSE LET r == readField(lines, lineIndex, fields, i, separator, newlineReplacement)
         IN IF r.err THEN [lines |-> lines, fields |-> fields, err |-> TRUE]
            ELSE readFieldsFrom(r.lines, lineIndex,
                                [r.fields EXCEPT ![i] = ReplaceAll(r.field, doubleDoubleQuote, doubleQuote)],
                                i + 1, separator, newlineReplacement)

RECURSIVE readLinesFrom(_, _, _, _, _)
\* The loop over the lines in readLines, from lines[lineIndex] on; an empty
\* line leaves its row nil.
readLinesFrom(lines, lineIndex, rows, separator, newlineReplacement) ==
    IF lineIndex > Len(lines) THEN [rows |-> rows, err |-> FALSE]
    ELSE IF lines[lineIndex] = <<>>
    THEN readLinesFrom(lines, lineIndex + 1, Append(rows, <<>>), separator, newlineReplacement)
    ELSE LET r == readFieldsFrom(lines, lineIndex, Split(lines[lineIndex], separator), 1,
                                 separator, newlineReplacement)
         IN IF r.err THEN [rows |-> <<>>, err |-> TRUE]
            ELSE readLinesFrom(r.lines, lineIndex + 1, Append(rows, r.fields),
                               separator, newlineReplacement)

\* readLines(lines, separator, newlineReplacement)
readLines(lines, separator, newlineReplacement) ==
    readLinesFrom(lines, 1, <<>>, separator, newlineReplacement)

\* ParseStringsWithFormat(text, format) for a format of encoding "UTF-8".
ParseStringsWithFormat(text, format) ==
    readLines(Split(text, format.Newline), format.Separator, <<"\n">>)

\* The bytes of the fields: a letter, the double quote, and the two delimiters.
FieldBytes == {"a", "\"", ";", ","}

\* The rows of at least one field within n bytes, cut at the byte "|".
RowsWithin(n) ==
    UNION {{Split(s, <<"|">>) : s \in [1..k -> FieldBytes \cup {"|"}]} : k \in 0..n}

RoundTripInit ==
    /\ DriversIdle
    /\ ShipIdle /\ FormatIdle /\ CfgIdle /\ NameIdle /\ FieldsIdle /\ WalkIdle /\ ExampleIdle /\ CompactIdle /\ DetectIdle
    /\ \E fields \in {<<>>} \cup RowsWithin(MaxRowBytes),
          delimiter \in {<<";">>, <<",">>}, newLine \in {<<"\r", "\n">>, <<"\n">>},
          quoteAllFields \in BOOLEAN, quoteEmptyFields \in BOOLEAN :
          rtIn = [fields |-> fields, delimiter |-> delimiter, newLine |-> newLine,
                  quoteAllFields |-> quoteAllFields, quoteEmptyFields |-> quoteEmptyFields]
    /\ rtOut = [written |-> FALSE, parsed |-> FALSE]

\* err := csv.RenderRowText(writer, fields) into a writer that takes every byte.
CallRenderRowText ==
    /\ ~rtOut.written
    /\ rtOut' = [written |-> TRUE, parsed |-> FALSE, text |-> csv_RenderRowText(rtIn, rtIn.fields)]
    /\ UNCHANGED <<rtIn, rtFrame>>

\* rows, err := ParseStringsWithFormat(text, format), the format with the
\* renderer's delimiter and newline.
CallParseStringsWithFormat ==
    /\ rtOut.written /\ ~rtOut.parsed
    /\ LET r == ParseStringsWithFormat(rtOut.text,
                    Format("UTF-8", rtIn.delimiter, rtIn.newLine))
       IN rtOut' = [rtOut EXCEPT !.parsed = TRUE] @@ [rows |-> r.rows, err |-> r.err]
    /\ UNCHANGED <<rtIn, rtFrame>>

RoundTripNext == CallRenderRowText \/ CallParseStringsWithFormat

SpecRoundTrip == RoundTripInit /\ [][RoundTripNext]_vars

----------------------------------------------------------------------------
(* Claims about the csv round trip *)

\* C30: the line that csv.Renderer.RenderRowText writes for a row of fields
\* without line breaks, parsed by ParseStringsWithFormat with the renderer's
\* separator and newline, yields the original fields as its first row, also
\* for fields that contain the delimiter or double quotes.
C30_RenderParseRoundTrip ==
    rtOut.parsed => (~rtOut.err /\ rtOut.rows # <<>> /\ rtOut.rows[1] = rtIn.fields)

\* A field that holds neither a quote nor the delimiter. The round trip holds
\* for the rows of such fields, a single empty field written unquoted apart:
\* its line is empty and gives no row.
PlainField(f) ==
    \A i \in 1..Len(f) : f[i] # "\"" /\ <<f[i]>> # rtIn.delimiter

C30_PlainRowsRoundTrip ==
    (/\ rtOut.parsed
     /\ \A i \in 1..Len(rtIn.fields) : PlainField(rtIn.fields[i])
     /\ ~(rtIn.fields = <<<<>>>> /\ ~rtIn.quoteAllFields /\ ~rtIn.quoteEmptyFields))
    => (~rtOut.err /\ rtOut.rows # <<>> /\ rtOut.rows[1] = rtIn.fields)

====
